---- MODULE Spec2Model ----
(***************************************************************************)
(* RMath: fixed-dimension vectors and matrices (vec.hpp, mat.hpp) and the  *)
(* range descriptors used to slice them (range.hpp).                       *)
(*                                                                         *)
(* Indices are 0-based as in the source: a buffer std::array<T, K> is a    *)
(* function with domain 0..K-1.                                            *)
(*                                                                         *)
(* Element types.  Range<T>, Vec<T,N> and Mat<T,R,C> accept every          *)
(* arithmetic T.  Two kinds are modelled: "int" (an integer type) and      *)
(* "double" (a floating type).  A Range<double> holds multiples of         *)
(* 1/FixedScale, stored as the integer count of such units (these values   *)
(* and their sums are exact in binary floating point for FixedScale = 2);  *)
(* a Range<int> holds integers, one unit each.                             *)
(*                                                                         *)
(* The classes are independent of one another, so each has a               *)
(* specification of its own: SpecRange (Range<T>, StaticRange::size),      *)
(* SpecBRange (Range<RowOrColSize>), SpecObj (Vec and Mat construction,    *)
(* element access, slicing) and SpecLinAlg (the determinant family).  The  *)
(* variables of the other classes stay at their idle values.               *)
(***************************************************************************)
EXTENDS Integers, Sequences, FiniteSets, TLC

VARIABLES
    \* ---- Range<T> (range.hpp:15-92) and the loop `for (auto v : range)`
    rng,        \* the Range object: [T, start, end, step] (_start, _end, _step)
    rsize,      \* <<>> or <<n>>: what Range::size() returned
    ssize,      \* <<>> or <<n>>: StaticRange<start,end,step>::size
    it,         \* the loop's iterator: [current_value, end_value, step_value]
    yielded,    \* the values the loop body has seen, in order
    rpc,        \* "idle" | "loop" | "done"
    \* ---- bound-parameterised Range<RowOrColSize> (range.hpp:140-200)
    brange,     \* [S, s, e, st, start, end, step]: arguments and resolved fields
    bstatus,    \* "none" | "rejected" (the constructor throws) | "accepted" |
                \* "indexed" (MakeAccessIndices has returned)
    indices,    \* the vector MakeAccessIndices() returned
    \* ---- Vec<T,N>, Mat<T,Row,Col> and the operations on them
    vec,        \* [N, data]: a Vec object, data \in [0..N-1 -> Int]
    mat,        \* [T, Row, Col, data]: a Mat object, data row-major
    op,         \* the operation the caller invoked ("none" before any)
    arg,        \* its arguments
    status,     \* its outcome: "none" | "ok" | an error name
    out,        \* the value it returned
    reads       \* the flat positions of the source buffer it read

rangeVars == <<rng, rsize, ssize, it, yielded, rpc>>
brangeVars == <<brange, bstatus, indices>>
objVars == <<vec, mat, op, arg, status, out, reads>>
vars == <<rng, rsize, ssize, it, yielded, rpc, brange, bstatus, indices,
          vec, mat, op, arg, status, out, reads>>

----------------------------------------------------------------------------
\* Bounds of the model.

\* start and end of a runtime range lie in -MaxBound..MaxBound units
MaxBound == 3
\* steps lie in -MaxStep..MaxStep
MaxStep == 2
\* a Range<double> holds multiples of 1/FixedScale
FixedScale == 2
\* the loop over a range is followed for at most MaxYield values
MaxYield == 8
\* containers and bound ranges have lengths 1..MaxLen
MaxLen == 3
\* 2x2 matrices have entries in -MaxVal..MaxVal
MaxVal == 2
\* 3x3 matrices have entries in 0..MaxVal3
MaxVal3 == 1
\* identity matrices have sizes 1..MaxIdent
MaxIdent == 4
\* the operands of a matrix product have 1..MaxDim rows and columns,
MaxDim == 3
\* the left operand at most MaxLhsEntries elements,
MaxLhsEntries == 6
\* and an enumerated right operand at most MaxRhsEntries elements
MaxRhsEntries == 4

----------------------------------------------------------------------------
\* Arithmetic helpers.

Abs(x) == IF x < 0 THEN -x ELSE x

\* C++ integer division truncates toward zero
TruncDiv(a, b) ==
    IF (a >= 0) = (b > 0) THEN Abs(a) \div Abs(b) ELSE -(Abs(a) \div Abs(b))

\* ceil(a / b) for a >= 0, b > 0
CeilDiv(a, b) == (a \div b) + (IF a % b = 0 THEN 0 ELSE 1)

\* static_cast<T>(1), in units
One(T) == IF T = "int" THEN 1 ELSE FixedScale

----------------------------------------------------------------------------
\* Range<T>

\* Range::size().  The quotient is an integer division for an integer T; for
\* a floating T it is a floating division whose non-negative result
\* static_cast<size_t> truncates.  Both are the floor of the exact quotient.
RangeSize(r) ==
    IF r.step = 0 THEN 0
    ELSE IF r.step > 0 /\ r.start >= r.end THEN 0
    ELSE IF r.step < 0 /\ r.start <= r.end THEN 0
    ELSE LET diff == IF r.step > 0 THEN r.end - r.start ELSE r.start - r.end
             abs_step == IF r.step > 0 THEN r.step ELSE -r.step
         IN  (diff + abs_step - One(r.T)) \div abs_step

\* StaticRange<Start, End, Step>::size (Step # 0 is a static_assert)
StaticRangeSize(Start, End, Step) ==
    IF Step > 0
    THEN IF End > Start THEN TruncDiv(End - Start + Step - 1, Step) ELSE 0
    ELSE IF End < Start THEN TruncDiv(Start - End - Step - 1, -Step) ELSE 0

\* Range::begin()
RangeBegin(r) ==
    [current_value |-> r.start, end_value |-> r.end, step_value |-> r.step]

\* Range::end()
RangeEnd(r) ==
    [current_value |-> r.end, end_value |-> r.end, step_value |-> r.step]

\* Range::Iterator::operator==: `other` is not read
IterEq(i, other) ==
    IF i.step_value > 0 THEN i.current_value >= i.end_value
    ELSE i.current_value <= i.end_value

\* Range::Iterator::operator!=
IterNe(i, other) == ~IterEq(i, other)

\* Range::Iterator::operator++
IterIncr(i) == [i EXCEPT !.current_value = i.current_value + i.step_value]

RangeInputs ==
    [T : {"int", "double"}, start : -MaxBound..MaxBound,
     end : -MaxBound..MaxBound, step : -MaxStep..MaxStep]

BRangeIdle ==
    /\ brange = [S |-> 0, s |-> 0, e |-> 0, st |-> 0,
                 start |-> 0, end |-> 0, step |-> 0]
    /\ bstatus = "none"
    /\ indices = <<>>

ObjIdle ==
    /\ vec = [N |-> 0, data |-> <<>>]
    /\ mat = [T |-> "int", Row |-> 0, Col |-> 0, data |-> <<>>]
    /\ op = "none"
    /\ arg = <<>>
    /\ status = "none"
    /\ out = <<>>
    /\ reads = {}

RangeIdle ==
    /\ rng = [T |-> "int", start |-> 0, end |-> 0, step |-> 0]
    /\ rsize = <<>>
    /\ ssize = <<>>
    /\ it = RangeBegin(rng)
    /\ yielded = <<>>
    /\ rpc = "idle"

\* Range(T s, T e, T st)
RangeInit ==
    /\ rng \in RangeInputs
    /\ rsize = <<>>
    /\ ssize = <<>>
    /\ it = RangeBegin(rng)
    /\ yielded = <<>>
    /\ rpc = "idle"
    /\ BRangeIdle
    /\ ObjIdle

\* range.size()
SizeCall ==
    /\ rpc = "idle"
    /\ rsize = <<>>
    /\ rsize' = <<RangeSize(rng)>>
    /\ UNCHANGED <<rng, ssize, it, yielded, rpc, brangeVars, objVars>>

\* StaticRange<start, end, step>::size, for int template arguments, Step # 0
StaticSizeCall ==
    /\ rpc = "idle"
    /\ ssize = <<>>
    /\ rng.T = "int"
    /\ rng.step # 0
    /\ ssize' = <<StaticRangeSize(rng.start, rng.end, rng.step)>>
    /\ UNCHANGED <<rng, rsize, it, yielded, rpc, brangeVars, objVars>>

\* for (auto v : range): auto it = range.begin()
LoopBegin ==
    /\ rpc = "idle"
    /\ it' = RangeBegin(rng)
    /\ rpc' = "loop"
    /\ UNCHANGED <<rng, rsize, ssize, yielded, brangeVars, objVars>>

\* it != range.end(): v = *it; the body; ++it
LoopBody ==
    /\ rpc = "loop"
    /\ IterNe(it, RangeEnd(rng))
    /\ Len(yielded) < MaxYield
    /\ yielded' = Append(yielded, it.current_value)
    /\ it' = IterIncr(it)
    /\ UNCHANGED <<rng, rsize, ssize, rpc, brangeVars, objVars>>

\* it == range.end(): the loop is left
LoopExit ==
    /\ rpc = "loop"
    /\ IterEq(it, RangeEnd(rng))
    /\ rpc' = "done"
    /\ UNCHANGED <<rng, rsize, ssize, it, yielded, brangeVars, objVars>>

RangeNext == SizeCall \/ StaticSizeCall \/ LoopBegin \/ LoopBody \/ LoopExit

SpecRange == RangeInit /\ [][RangeNext]_vars

----------------------------------------------------------------------------
\* Range<RowOrColSize>: the range bound to the length of the sliced axis

\* Range<RowOrColSize>::Resolve
Resolve(S, i) == IF i >= 0 THEN i ELSE S + i

\* the constructor's check: it throws "Index out of range"
BRangeRejects(S, s, e) == Abs(s) > S \/ Abs(e) > S

\* MakeAccessIndices, step > 0: for (size_t i = start; i < end; i += step)
RECURSIVE IndicesUp(_, _, _)
IndicesUp(i, end, step) ==
    IF i < end THEN <<i>> \o IndicesUp(i + step, end, step) ELSE <<>>

\* MakeAccessIndices, step < 0: while (current > target) ... current += step
RECURSIVE IndicesDown(_, _, _)
IndicesDown(current, target, step) ==
    IF current > target
    THEN <<current>> \o IndicesDown(current + step, target, step)
    ELSE <<>>

\* Range<RowOrColSize>::MakeAccessIndices
MakeAccessIndices(r) ==
    IF r.step = 0 THEN <<>>
    ELSE IF r.step > 0 THEN IndicesUp(r.start, r.end, r.step)
    ELSE IndicesDown(r.start, r.end, r.step)

\* Range<S>(s, e, st)
BRangeConstruct ==
    /\ bstatus = "none"
    /\ \E S \in 1..MaxLen, s \in -(MaxLen + 1)..(MaxLen + 1),
          e \in -(MaxLen + 1)..(MaxLen + 1), st \in -MaxStep..MaxStep :
          IF BRangeRejects(S, s, e)
          THEN /\ bstatus' = "rejected"
               /\ brange' = [brange EXCEPT !.S = S, !.s = s, !.e = e, !.st = st]
          ELSE /\ bstatus' = "accepted"
               /\ brange' = [S |-> S, s |-> s, e |-> e, st |-> st,
                             start |-> Resolve(S, s), end |-> Resolve(S, e),
                             step |-> st]
    /\ UNCHANGED <<indices, rangeVars, objVars>>

\* range.MakeAccessIndices()
MakeAccessIndicesCall ==
    /\ bstatus = "accepted"
    /\ indices' = MakeAccessIndices(brange)
    /\ bstatus' = "indexed"
    /\ UNCHANGED <<brange, rangeVars, objVars>>

BRangeInit == RangeIdle /\ BRangeIdle /\ ObjIdle

BRangeNext == BRangeConstruct \/ MakeAccessIndicesCall

SpecBRange == BRangeInit /\ [][BRangeNext]_vars

----------------------------------------------------------------------------
\* Vec<T,N> and Mat<T,Row,Col>: construction, element access, slicing

\* the values 1, 2, ..., n at positions 0..n-1: every position identifiable
Iota(n) == [k \in 0..(n - 1) |-> k + 1]

\* Mat::MakeIdentity(): a zero-filled Mat with res[i, i] = 1
MakeIdentity(T, Size) ==
    [T |-> T, Row |-> Size, Col |-> Size,
     data |-> [k \in 0..(Size * Size - 1) |->
                  IF k \div Size = k % Size THEN 1 ELSE 0]]

\* std::copy(list.begin(), list.end(), _data.begin()) into a buffer of n
CopyIn(n, coll) == [k \in 0..(n - 1) |-> coll[k + 1]]

\* VecCtor throwing only for a collection that is too short
VecCtor_ShortOnly(kind, N, coll) ==
    IF Len(coll) < N
    THEN [status |-> "SizeMismatch", value |-> [N |-> 0, data |-> <<>>]]
    ELSE [status |-> "ok", value |-> [N |-> N, data |-> CopyIn(N, coll)]]

\* Vec(std::initializer_list<T>), Vec(const std::list<U>&),
\* Vec(const std::vector<U>&): the three check the size and copy
VecCtor(kind, N, coll) ==
    IF Len(coll) # N
    THEN [status |-> "SizeMismatch", value |-> [N |-> 0, data |-> <<>>]]
    ELSE [status |-> "ok", value |-> [N |-> N, data |-> CopyIn(N, coll)]]

\* Mat(const std::initializer_list<U>&), Mat(const std::list<U>&),
\* Mat(const std::vector<U>&)
MatCtorFlat(kind, Row, Col, coll) ==
    IF Len(coll) # Row * Col
    THEN [status |-> "SizeMismatch",
          value |-> [T |-> "int", Row |-> 0, Col |-> 0, data |-> <<>>]]
    ELSE [status |-> "ok",
          value |-> [T |-> "int", Row |-> Row, Col |-> Col,
                     data |-> CopyIn(Row * Col, coll)]]

\* Mat(const std::initializer_list<Detail::RowData<T, Col>>&): rows[r] is the
\* row_values array (Col values) of the r-th RowData
MatCtorRows(Row, Col, rows) ==
    IF Len(rows) # Row
    THEN [status |-> "RowCountMismatch",
          value |-> [T |-> "int", Row |-> 0, Col |-> 0, data |-> <<>>]]
    ELSE [status |-> "ok",
          value |-> [T |-> "int", Row |-> Row, Col |-> Col,
                     data |-> [k \in 0..(Row * Col - 1) |->
                                  rows[(k \div Col) + 1][(k % Col) + 1]]]]

\* Detail::ComplieTimeIndexCheckVec<Limit>(i): static_assert(i >= Limit, ...).
\* The assertion passes only for i >= Limit; i is a function parameter, so a
\* compiler may also refuse the assertion itself as not a constant expression.
IndexCheckOutcomes(Limit, i) ==
    IF i >= Limit THEN {"accepted", "rejected"} ELSE {"rejected"}

\* FlatIndex with the row count as the stride
FlatIndex_RowStride(m, row, col) == row * m.Row + col

\* the flat position Mat::operator[](row, col) addresses
FlatIndex(m, row, col) == row * m.Col + col

\* StaticRange::Iterator: begin() at Start, operator!= against end(), operator++
RECURSIVE StaticRangeIter(_, _, _)
StaticRangeIter(current, End, Step) ==
    IF (IF Step > 0 THEN current < End ELSE current > End)
    THEN <<current>> \o StaticRangeIter(current + Step, End, Step)
    ELSE <<>>

\* the indices `for (auto idx : range)` produces
StaticRangeIndices(r) == StaticRangeIter(r.start, r.end, r.step)

\* SliceAccepts with the check of the last index left out
SliceAccepts_StartOnly(Bound, r) ==
    LET outDim == StaticRangeSize(r.start, r.end, r.step)
    IN  outDim > 0 => (r.start >= 0 /\ r.start < Bound)

\* the two static_asserts of a slice along an axis of length Bound
SliceAccepts(Bound, r) ==
    LET outDim == StaticRangeSize(r.start, r.end, r.step)
        lastIdx == r.start + (outDim - 1) * r.step
    IN  outDim > 0 =>
            /\ r.start >= 0 /\ r.start < Bound
            /\ lastIdx >= 0 /\ lastIdx < Bound

\* Vec::operator[](StaticRange<start, end, step>).  "ub": an access outside
\* the source or the result buffer.
VecSlice(v, r) ==
    LET outDim == StaticRangeSize(r.start, r.end, r.step)
        idxs == StaticRangeIndices(r)
        rd == {idxs[k] : k \in 1..Len(idxs)}
    IN  IF ~SliceAccepts(v.N, r)
        THEN [status |-> "rejected", reads |-> {}, value |-> <<>>]
        ELSE IF ~(rd \subseteq 0..(v.N - 1)) \/ Len(idxs) > outDim
        THEN [status |-> "ub", reads |-> rd, value |-> <<>>]
        ELSE [status |-> "ok", reads |-> rd,
              value |-> [N |-> outDim,
                         data |-> [i \in 0..(outDim - 1) |->
                                      IF i < Len(idxs) THEN v.data[idxs[i + 1]]
                                      ELSE 0]]]

\* Mat::operator[](StaticRange rr, StaticRange rc): the result is zero-filled,
\* then result[out_r, out_c] = (*this)[r_idx, c_idx] in row-major loop order
MatSlice(m, rr, rc) ==
    LET OutRow == StaticRangeSize(rr.start, rr.end, rr.step)
        OutCol == StaticRangeSize(rc.start, rc.end, rc.step)
        rs == StaticRangeIndices(rr)
        cs == StaticRangeIndices(rc)
        W == (1..Len(rs)) \X (1..Len(cs))
        target(w) == (w[1] - 1) * OutCol + (w[2] - 1)
        source(w) == FlatIndex(m, rs[w[1]], cs[w[2]])
        rd == {source(w) : w \in W}
        later(a, b) == a[1] > b[1] \/ (a[1] = b[1] /\ a[2] >= b[2])
        last(k) == CHOOSE w \in W :
                      /\ target(w) = k
                      /\ \A x \in W : target(x) = k => later(w, x)
    IN  IF ~(SliceAccepts(m.Row, rr) /\ SliceAccepts(m.Col, rc))
        THEN [status |-> "rejected", reads |-> {}, value |-> <<>>]
        ELSE IF \/ ~(rd \subseteq 0..(m.Row * m.Col - 1))
                \/ \E w \in W : target(w) \notin 0..(OutRow * OutCol - 1)
        THEN [status |-> "ub", reads |-> rd, value |-> <<>>]
        ELSE [status |-> "ok", reads |-> rd,
              value |-> [T |-> m.T, Row |-> OutRow, Col |-> OutCol,
                         data |-> [k \in 0..(OutRow * OutCol - 1) |->
                                      IF \E w \in W : target(w) = k
                                      THEN m.data[source(last(k))]
                                      ELSE 0]]]

\* the flat positions Mat::GetRow(row) reads
GetRowReads(m, row) == (row * m.Col)..(row * m.Col + m.Col - 1)

\* the flat positions Mat::GetCol(col) reads
GetColReads(m, col) == {i * m.Col + col : i \in 0..(m.Row - 1)}

\* what a read of a position outside the buffer may deliver
Garbage == {0, 7}

\* the collections a constructor is given: len values, position k holding b + k
CollInputs(len) == {[k \in 1..len |-> b + k] : b \in {0, 10}}

\* the row lists: n rows of Col values, row r column c holding b + r * Col + c
RowsInputs(n, Col) ==
    {[r \in 1..n |-> [c \in 1..Col |-> b + (r - 1) * Col + c]] : b \in {0, 10}}

\* the StaticRange template arguments tried on an axis (Step # 0)
StaticRangeInputs ==
    [start : -1..MaxLen, end : -1..(MaxLen + 1),
     step : (-MaxStep..MaxStep) \ {0}]

VecInputs == {[N |-> N, data |-> Iota(N)] : N \in 1..MaxLen}

MatInputs ==
    {[T |-> "int", Row |-> R, Col |-> C, data |-> Iota(R * C)] :
        R \in 1..MaxLen, C \in 1..MaxLen}
    \cup {MakeIdentity("int", S) : S \in 1..MaxLen}

NoVec == [N |-> 0, data |-> <<>>]
NoMat == [T |-> "int", Row |-> 0, Col |-> 0, data |-> <<>>]

\* no object yet, or a Vec, or a Mat, in the hands of the caller
ObjInit ==
    /\ \/ vec = NoVec /\ mat = NoMat
       \/ vec \in VecInputs /\ mat = NoMat
       \/ vec = NoVec /\ mat \in MatInputs
    /\ op = "none"
    /\ arg = <<>>
    /\ status = "none"
    /\ out = <<>>
    /\ reads = {}
    /\ RangeIdle
    /\ BRangeIdle

\* Vec<T,N> v(collection)
VecConstruct ==
    /\ op = "none" /\ vec = NoVec /\ mat = NoMat
    /\ \E kind \in {"initializer_list", "list", "vector"}, N \in 1..MaxLen :
       \E len \in 0..(N + 1) : \E coll \in CollInputs(len) :
          LET r == VecCtor(kind, N, coll) IN
          /\ op' = "VecCtor"
          /\ arg' = [kind |-> kind, N |-> N, coll |-> coll]
          /\ status' = r.status
          /\ vec' = r.value
    /\ UNCHANGED <<mat, out, reads, rangeVars, brangeVars>>

\* Mat<T,Row,Col> m(collection)
MatConstructFlat ==
    /\ op = "none" /\ vec = NoVec /\ mat = NoMat
    /\ \E kind \in {"initializer_list", "list", "vector"},
          R \in 1..MaxLen, C \in 1..MaxLen :
       \E len \in 0..(R * C + 1) : \E coll \in CollInputs(len) :
          LET r == MatCtorFlat(kind, R, C, coll) IN
          /\ op' = "MatCtorFlat"
          /\ arg' = [kind |-> kind, Row |-> R, Col |-> C, coll |-> coll]
          /\ status' = r.status
          /\ mat' = r.value
    /\ UNCHANGED <<vec, out, reads, rangeVars, brangeVars>>

\* Mat<T,Row,Col> m{{...}, {...}}
MatConstructRows ==
    /\ op = "none" /\ vec = NoVec /\ mat = NoMat
    /\ \E R \in 1..MaxLen, C \in 1..MaxLen :
       \E n \in 0..(R + 1) : \E rows \in RowsInputs(n, C) :
          LET r == MatCtorRows(R, C, rows) IN
          /\ op' = "MatCtorRows"
          /\ arg' = [Row |-> R, Col |-> C, rows |-> rows]
          /\ status' = r.status
          /\ mat' = r.value
    /\ UNCHANGED <<vec, out, reads, rangeVars, brangeVars>>

\* v[index], index computed at run time: return _data[index], no check.
\* std::array::operator[] outside the buffer is undefined behaviour.
VecAt ==
    /\ op = "none" /\ vec # NoVec
    /\ \E index \in 0..(vec.N + 1) :
          /\ op' = "VecAt"
          /\ arg' = [index |-> index]
          /\ reads' = {index}
          /\ IF index < vec.N
             THEN status' = "ok" /\ out' = <<vec.data[index]>>
             ELSE \/ status' = "fault" /\ out' = <<>>
                  \/ status' = "ok" /\ \E g \in Garbage : out' = <<g>>
    /\ UNCHANGED <<vec, mat, rangeVars, brangeVars>>

\* v[ComplieTimeIndexCheckVec<N>(i)]: return _data[index.value]
VecAtChecked ==
    /\ op = "none" /\ vec # NoVec
    /\ \E i \in 0..(vec.N + 1) : \E o \in IndexCheckOutcomes(vec.N, i) :
          /\ op' = "VecAtChecked"
          /\ arg' = [index |-> i]
          /\ IF o = "rejected"
             THEN status' = "rejected" /\ out' = <<>> /\ reads' = {}
             ELSE /\ reads' = {i}
                  /\ IF i < vec.N
                     THEN status' = "ok" /\ out' = <<vec.data[i]>>
                     ELSE \/ status' = "fault" /\ out' = <<>>
                          \/ status' = "ok" /\ \E g \in Garbage : out' = <<g>>
    /\ UNCHANGED <<vec, mat, rangeVars, brangeVars>>

\* v[StaticRange<start, end, step>{}]
VecSliceCall ==
    /\ op = "none" /\ vec # NoVec
    /\ \E r \in StaticRangeInputs :
          LET res == VecSlice(vec, r) IN
          /\ op' = "VecSlice"
          /\ arg' = [range |-> r]
          /\ status' = res.status
          /\ out' = res.value
          /\ reads' = res.reads
    /\ UNCHANGED <<vec, mat, rangeVars, brangeVars>>

\* m[index]: return _data[index], no check
MatAtFlat ==
    /\ op = "none" /\ mat # NoMat
    /\ \E index \in 0..(mat.Row * mat.Col + 1) :
          /\ op' = "MatAtFlat"
          /\ arg' = [index |-> index]
          /\ reads' = {index}
          /\ IF index < mat.Row * mat.Col
             THEN status' = "ok" /\ out' = <<mat.data[index]>>
             ELSE \/ status' = "fault" /\ out' = <<>>
                  \/ status' = "ok" /\ \E g \in Garbage : out' = <<g>>
    /\ UNCHANGED <<vec, mat, rangeVars, brangeVars>>

\* m[row, col]: return _data[row * Col + col], no check
MatAt ==
    /\ op = "none" /\ mat # NoMat
    /\ \E row \in 0..mat.Row, col \in 0..mat.Col :
          LET pos == FlatIndex(mat, row, col) IN
          /\ op' = "MatAt"
          /\ arg' = [row |-> row, col |-> col]
          /\ reads' = {pos}
          /\ IF pos < mat.Row * mat.Col
             THEN status' = "ok" /\ out' = <<mat.data[pos]>>
             ELSE \/ status' = "fault" /\ out' = <<>>
                  \/ status' = "ok" /\ \E g \in Garbage : out' = <<g>>
    /\ UNCHANGED <<vec, mat, rangeVars, brangeVars>>

\* m.GetRow(row): result[j] = _data[i] for i in row*Col .. row*Col + Col - 1
GetRow ==
    /\ op = "none" /\ mat # NoMat
    /\ \E row \in 0..mat.Row :
          LET rd == GetRowReads(mat, row) IN
          /\ op' = "GetRow"
          /\ arg' = [row |-> row]
          /\ reads' = rd
          /\ IF rd \subseteq 0..(mat.Row * mat.Col - 1)
             THEN /\ status' = "ok"
                  /\ out' = [j \in 0..(mat.Col - 1) |-> mat.data[row * mat.Col + j]]
             ELSE \/ status' = "fault" /\ out' = <<>>
                  \/ /\ status' = "ok"
                     /\ \E g \in Garbage :
                           out' = [j \in 0..(mat.Col - 1) |->
                                      IF row * mat.Col + j < mat.Row * mat.Col
                                      THEN mat.data[row * mat.Col + j] ELSE g]
    /\ UNCHANGED <<vec, mat, rangeVars, brangeVars>>

\* m.GetCol(col): result[i] = _data[i * Col + col] for i < Row
GetCol ==
    /\ op = "none" /\ mat # NoMat
    /\ \E col \in 0..mat.Col :
          LET rd == GetColReads(mat, col) IN
          /\ op' = "GetCol"
          /\ arg' = [col |-> col]
          /\ reads' = rd
          /\ IF rd \subseteq 0..(mat.Row * mat.Col - 1)
             THEN /\ status' = "ok"
                  /\ out' = [i \in 0..(mat.Row - 1) |-> mat.data[i * mat.Col + col]]
             ELSE \/ status' = "fault" /\ out' = <<>>
                  \/ /\ status' = "ok"
                     /\ \E g \in Garbage :
                           out' = [i \in 0..(mat.Row - 1) |->
                                      IF i * mat.Col + col < mat.Row * mat.Col
                                      THEN mat.data[i * mat.Col + col] ELSE g]
    /\ UNCHANGED <<vec, mat, rangeVars, brangeVars>>

\* m[StaticRange<RStart, REnd, RStep>{}, StaticRange<CStart, CEnd, CStep>{}]
MatSliceCall ==
    /\ op = "none" /\ mat # NoMat
    /\ \E rr \in StaticRangeInputs, rc \in StaticRangeInputs :
          LET res == MatSlice(mat, rr, rc) IN
          /\ op' = "MatSlice"
          /\ arg' = [rr |-> rr, rc |-> rc]
          /\ status' = res.status
          /\ out' = res.value
          /\ reads' = res.reads
    /\ UNCHANGED <<vec, mat, rangeVars, brangeVars>>

ObjNext ==
    \/ VecConstruct \/ MatConstructFlat \/ MatConstructRows
    \/ VecAt \/ VecAtChecked \/ VecSliceCall
    \/ MatAtFlat \/ MatAt \/ GetRow \/ GetCol \/ MatSliceCall

SpecObj == ObjInit /\ [][ObjNext]_vars

----------------------------------------------------------------------------
\* Element arithmetic.  An "int" element is an integer.  A "double" element
\* is a rational <<n, d>> in lowest terms with d > 0: floating arithmetic is
\* modelled exactly, without rounding.

RECURSIVE GCD(_, _)
GCD(a, b) == IF b = 0 THEN a ELSE GCD(b, a % b)

\* the rational n / d (d # 0) in lowest terms
Rat(n, d) ==
    LET g == GCD(Abs(n), Abs(d))
    IN  IF d > 0 THEN <<n \div g, d \div g>> ELSE <<(-n) \div g, (-d) \div g>>

\* static_cast<T>(k) of an integer k
Cast(T, k) == IF T = "int" THEN k ELSE <<k, 1>>

Add(T, a, b) ==
    IF T = "int" THEN a + b ELSE Rat(a[1] * b[2] + b[1] * a[2], a[2] * b[2])

Sub(T, a, b) ==
    IF T = "int" THEN a - b ELSE Rat(a[1] * b[2] - b[1] * a[2], a[2] * b[2])

Mul(T, a, b) == IF T = "int" THEN a * b ELSE Rat(a[1] * b[1], a[2] * b[2])

Neg(T, a) == IF T = "int" THEN -a ELSE <<-a[1], a[2]>>

\* a / b, b # 0: truncating for an integer type
Div(T, a, b) ==
    IF T = "int" THEN TruncDiv(a, b) ELSE Rat(a[1] * b[2], a[2] * b[1])

\* the denominator of the literal 1e-9
EpsDen == 1000000000

\* x < 1e-9: n / d < 1 / EpsDen, that is n * EpsDen <= d - 1
LtEps(T, x) ==
    IF T = "int" THEN x <= 0 ELSE x[1] <= (x[2] - 1) \div EpsDen

\* std::abs(x)
AbsOf(T, x) == IF T = "int" THEN Abs(x) ELSE <<Abs(x[1]), x[2]>>

\* std::abs(x) < 1e-9
AbsLtEps(T, x) == LtEps(T, AbsOf(T, x))

\* x > 1e-9 for x >= 0: n / d > 1 / EpsDen, that is n > d / EpsDen
GtEps(T, x) ==
    IF T = "int" THEN x >= 1 ELSE x[1] > x[2] \div EpsDen

\* the conversion of a T value to int: a floating value is truncated toward
\* zero
ToInt(T, x) == IF T = "int" THEN x ELSE TruncDiv(x[1], x[2])

----------------------------------------------------------------------------
\* The linear-algebra functions of mat.hpp

\* mat[r, c]
MatGet(m, r, c) == m.data[FlatIndex(m, r, c)]

\* MinorMatrix(mat, omitRow, omitCol): the rows and columns other than the
\* omitted ones, in order, into a (Row-1) x (Col-1) result
MinorMatrix(m, omitRow, omitCol) ==
    [T |-> m.T, Row |-> m.Row - 1, Col |-> m.Col - 1,
     data |-> [k \in 0..((m.Row - 1) * (m.Col - 1) - 1) |->
                  LET rr == k \div (m.Col - 1)
                      cc == k % (m.Col - 1)
                  IN  MatGet(m, IF rr < omitRow THEN rr ELSE rr + 1,
                                IF cc < omitCol THEN cc ELSE cc + 1)]]

\* Det(mat): mat[0] for 1x1, ad - bc for 2x2, else the loop along the first
\* row: det += sign * mat[0, j] * Det(MinorMatrix(mat, 0, j)); sign = -sign
RECURSIVE Det(_), DetLoop(_, _, _, _)
\* the loop of Det with a sign that does not alternate
DetLoop_NoSign(m, j, det, sign) ==
    IF j < m.Row
    THEN DetLoop(m, j + 1,
                 Add(m.T, det,
                     Mul(m.T, MatGet(m, 0, j), Det(MinorMatrix(m, 0, j)))),
                 sign)
    ELSE det

DetLoop(m, j, det, sign) ==
    IF j < m.Row
    THEN DetLoop(m, j + 1,
                 Add(m.T, det,
                     Mul(m.T, Mul(m.T, Cast(m.T, sign), MatGet(m, 0, j)),
                         Det(MinorMatrix(m, 0, j)))),
                 -sign)
    ELSE det

Det(m) ==
    IF m.Row = 1 THEN m.data[0]
    ELSE IF m.Row = 2
    THEN Sub(m.T, Mul(m.T, MatGet(m, 0, 0), MatGet(m, 1, 1)),
                  Mul(m.T, MatGet(m, 0, 1), MatGet(m, 1, 0)))
    ELSE DetLoop(m, 0, Cast(m.T, 0), 1)

\* Cofactor without the sign (-1)^(row + col)
Cofactor_NoSign(m, row, col) == Det(MinorMatrix(m, row, col))

\* Cofactor(mat, row, col)
Cofactor(m, row, col) ==
    LET minorDet == Det(MinorMatrix(m, row, col))
    IN  IF (row + col) % 2 = 0 THEN minorDet ELSE Neg(m.T, minorDet)

\* Adjoint(mat), Size >= 2: adj[c, r] = Cofactor(mat, r, c)
Adjoint(m) ==
    [T |-> m.T, Row |-> m.Row, Col |-> m.Col,
     data |-> [k \in 0..(m.Row * m.Col - 1) |->
                  Cofactor(m, k % m.Col, k \div m.Col)]]

\* operator*(Mat, scalar): result[i] = lhs[i] * rhs
ScalarMul(m, x) ==
    [m EXCEPT !.data = [k \in DOMAIN m.data |-> Mul(m.T, m.data[k], x)]]

\* the product taken element by element
MatMul_Elementwise(lhs, rhs) ==
    [T |-> lhs.T, Row |-> lhs.Row, Col |-> rhs.Col,
     data |-> [p \in 0..(lhs.Row * rhs.Col - 1) |->
                  IF p \in DOMAIN lhs.data /\ p \in DOMAIN rhs.data
                  THEN Mul(lhs.T, lhs.data[p], rhs.data[p])
                  ELSE Cast(lhs.T, 0)]]

\* operator*(Mat<T,Row,Col>, Mat<U,Col,OtherCol>): sum += lhs[r*Col + k] *
\* rhs[k*OtherCol + c] for k = 0..Col-1
RECURSIVE MulLoop(_, _, _, _, _, _)
MulLoop(lhs, rhs, r, c, k, sum) ==
    IF k < lhs.Col
    THEN MulLoop(lhs, rhs, r, c, k + 1,
                 Add(lhs.T, sum, Mul(lhs.T, lhs.data[r * lhs.Col + k],
                                            rhs.data[k * rhs.Col + c])))
    ELSE sum

MatMul(lhs, rhs) ==
    [T |-> lhs.T, Row |-> lhs.Row, Col |-> rhs.Col,
     data |-> [p \in 0..(lhs.Row * rhs.Col - 1) |->
                  MulLoop(lhs, rhs, p \div rhs.Col, p % rhs.Col, 0,
                          Cast(lhs.T, 0))]]

\* Inverse with the magnitude left out of the singularity test
Inverse_NoAbs(m) ==
    LET det == Det(m)
    IN  IF LtEps(m.T, det)
        THEN [status |-> "SingularMatrix", value |-> <<>>]
        ELSE [status |-> "ok",
              value |-> ScalarMul(Adjoint(m), Div(m.T, Cast(m.T, 1), det))]

\* Inverse(mat): throws when std::abs(det) < 1e-9, else
\* Adjoint(mat) * (static_cast<T>(1) / det)
Inverse(m) ==
    LET det == Det(m)
    IN  IF AbsLtEps(m.T, det)
        THEN [status |-> "SingularMatrix", value |-> <<>>]
        ELSE [status |-> "ok",
              value |-> ScalarMul(Adjoint(m), Div(m.T, Cast(m.T, 1), det))]

\* Trace(mat): `auto trace = 0` is an int; trace += mat[i, i] adds in the
\* common type of int and T and converts the sum back to int
RECURSIVE TraceLoop(_, _, _)
TraceLoop(m, i, trace) ==
    IF i < m.Row
    THEN TraceLoop(m, i + 1,
                   ToInt(m.T, Add(m.T, Cast(m.T, trace), MatGet(m, i, i))))
    ELSE trace

Trace(m) == TraceLoop(m, 0, 0)

\* Rank: the first row j from `from` on with !row_used[j] and
\* std::abs(temp[j, i]) > 1e-9, or Row when there is none
RECURSIVE RankPivot_AnyRow(_, _, _, _)
RankPivot_AnyRow(temp, row_used, i, j) ==
    IF j >= temp.Row THEN temp.Row
    ELSE IF GtEps(temp.T, AbsOf(temp.T, MatGet(temp, j, i)))
         THEN j
         ELSE RankPivot_AnyRow(temp, row_used, i, j + 1)

RECURSIVE RankPivot(_, _, _, _)
RankPivot(temp, row_used, i, j) ==
    IF j >= temp.Row THEN temp.Row
    ELSE IF ~row_used[j] /\ GtEps(temp.T, AbsOf(temp.T, MatGet(temp, j, i)))
         THEN j
         ELSE RankPivot(temp, row_used, i, j + 1)

\* Rank: for every row j not used, factor = temp[j, i] / temp[pivot, i] (a
\* T) and temp[j, k] -= factor * temp[pivot, k] for k = i..Col-1
RankEliminate(temp, row_used, pivot, i) ==
    [temp EXCEPT !.data =
        [p \in DOMAIN temp.data |->
            LET j == p \div temp.Col
                k == p % temp.Col
                factor == Div(temp.T, MatGet(temp, j, i), MatGet(temp, pivot, i))
            IN  IF ~row_used[j] /\ k >= i
                THEN Sub(temp.T, temp.data[p],
                         Mul(temp.T, factor, MatGet(temp, pivot, k)))
                ELSE temp.data[p]]]

\* Rank: the loop over the columns i while i < Col && rank < Row
\* (pivots lists the <<row, column>> of every pivot taken, in order; the
\* result holds rank, that list, the final temp and the number of passes)
RECURSIVE RankLoop(_, _, _, _, _)
RankLoop(temp, row_used, rank, i, pivots) ==
    IF i < temp.Col /\ rank < temp.Row
    THEN LET pivot == RankPivot(temp, row_used, i, 0)
             used == [row_used EXCEPT ![pivot] = TRUE]
         IN  IF pivot # temp.Row
             THEN RankLoop(RankEliminate(temp, used, pivot, i), used,
                           rank + 1, i + 1, Append(pivots, <<pivot, i>>))
             ELSE RankLoop(temp, row_used, rank, i + 1, pivots)
    ELSE [rank |-> rank, pivots |-> pivots, temp |-> temp, passes |-> i]

\* Rank that leaves the first column out
Rank_FromSecondCol(m) ==
    RankLoop(m, [j \in 0..(m.Row - 1) |-> FALSE], 0, 1, <<>>).rank

\* Rank(mat): auto temp = mat; rank = 0; row_used(Row, false); the loop
RankRun(m) == RankLoop(m, [j \in 0..(m.Row - 1) |-> FALSE], 0, 0, <<>>)

\* Rank(mat)
Rank(m) == RankRun(m).rank

\* IsFullRank(mat): Det(mat) != 0 && Rank(mat) == Size
IsFullRank(m) == Det(m) # Cast(m.T, 0) /\ Rank(m) = m.Row

\* Adjoint<T, Size> can be instantiated: the loop that follows the
\* `if constexpr (Size == 1)` block belongs to every instantiation, and
\* Cofactor calls MinorMatrix, which asserts Row > 1 && Col > 1
AdjointInstantiates(Size) == Size > 1

\* the square matrices given to the functions: Size 2 with entries in
\* -MaxVal..MaxVal, Size 3 with entries in 0..MaxVal3, and {1, 2, 3, 4}
IntSquares ==
    {[T |-> "int", Row |-> 2, Col |-> 2, data |-> d] :
        d \in [0..3 -> -MaxVal..MaxVal]}
    \cup {[T |-> "int", Row |-> 3, Col |-> 3, data |-> d] :
        d \in [0..8 -> 0..MaxVal3]}
    \cup {[T |-> "int", Row |-> 2, Col |-> 2, data |-> Iota(4)]}

\* the same matrix with element type T
WithType(m, T) ==
    [m EXCEPT !.T = T, !.data = [k \in DOMAIN m.data |-> Cast(T, m.data[k])]]

SquareInputs == {WithType(m, T) : m \in IntSquares, T \in {"int", "double"}}

\* Size 2 matrices of a floating type with entries k / FixedScale
FractionSquares ==
    {[T |-> "double", Row |-> 2, Col |-> 2,
      data |-> [k \in 0..3 |-> Rat(d[k], FixedScale)]] :
        d \in [0..3 -> -MaxVal..MaxVal]}

\* 1x1 matrices, the identities up to MaxIdent and the matrices with one to
\* three rows and columns that are not square (entries in 0..MaxVal3)
OtherShapes ==
    {[T |-> "int", Row |-> 1, Col |-> 1, data |-> d] :
        d \in [0..0 -> -MaxVal..MaxVal]}
    \cup {MakeIdentity("int", n) : n \in 1..MaxIdent}
    \cup UNION {{[T |-> "int", Row |-> sh[1], Col |-> sh[2], data |-> d] :
                    d \in [0..(sh[1] * sh[2] - 1) -> 0..MaxVal3]} :
                 sh \in {<<1, 2>>, <<2, 1>>, <<1, 3>>, <<3, 1>>,
                         <<2, 3>>, <<3, 2>>}}

LinAlgInputs ==
    SquareInputs \cup FractionSquares
    \cup {WithType(m, T) : m \in OtherShapes, T \in {"int", "double"}}

LinAlgInit ==
    /\ vec = NoVec
    /\ mat \in LinAlgInputs
    /\ op = "none"
    /\ arg = <<>>
    /\ status = "none"
    /\ out = <<>>
    /\ reads = {}
    /\ RangeIdle
    /\ BRangeIdle

\* auto inv = Inverse(mat); Inverse<T, 1> instantiates Adjoint<T, 1>, so a
\* program that calls it does not build
InverseCall ==
    /\ op = "none" /\ mat # NoMat /\ mat.Row = mat.Col
    /\ AdjointInstantiates(mat.Row)
    /\ LET r == Inverse(mat) IN
          /\ op' = "Inverse"
          /\ status' = r.status
          /\ out' = r.value
    /\ UNCHANGED <<vec, mat, arg, reads, rangeVars, brangeVars>>

\* auto p = Inverse(mat) * mat
InverseTimesCall ==
    /\ op = "none" /\ mat # NoMat /\ mat.Row = mat.Col
    /\ AdjointInstantiates(mat.Row)
    /\ LET r == Inverse(mat) IN
          /\ op' = "InverseTimes"
          /\ status' = r.status
          /\ out' = IF r.status = "ok" THEN MatMul(r.value, mat) ELSE <<>>
    /\ UNCHANGED <<vec, mat, arg, reads, rangeVars, brangeVars>>

\* auto d = Det(mat)
DetCall ==
    /\ op = "none" /\ mat # NoMat /\ mat.Row = mat.Col
    /\ op' = "Det"
    /\ status' = "ok"
    /\ out' = Det(mat)
    /\ UNCHANGED <<vec, mat, arg, reads, rangeVars, brangeVars>>

\* auto t = Trace(mat): the result is an int
TraceCall ==
    /\ op = "none" /\ mat # NoMat /\ mat.Row = mat.Col
    /\ op' = "Trace"
    /\ status' = "ok"
    /\ out' = Trace(mat)
    /\ UNCHANGED <<vec, mat, arg, reads, rangeVars, brangeVars>>

\* size_t r = Rank(mat); arg records what the call did to its local temp
RankCall ==
    /\ op = "none" /\ mat # NoMat
    /\ op' = "Rank"
    /\ status' = "ok"
    /\ out' = Rank(mat)
    /\ LET run == RankRun(mat)
       IN  arg' = [pivots |-> run.pivots, temp |-> run.temp,
                   passes |-> run.passes]
    /\ UNCHANGED <<vec, mat, reads, rangeVars, brangeVars>>

\* bool f = IsFullRank(mat)
IsFullRankCall ==
    /\ op = "none" /\ mat # NoMat /\ mat.Row = mat.Col
    /\ op' = "IsFullRank"
    /\ status' = "ok"
    /\ out' = IsFullRank(mat)
    /\ UNCHANGED <<vec, mat, arg, reads, rangeVars, brangeVars>>

\* auto l = mat * Adjoint(mat); auto r = Adjoint(mat) * mat; auto d = Det(mat)
AdjointProductCall ==
    /\ op = "none" /\ mat # NoMat /\ mat.Row = mat.Col
    /\ AdjointInstantiates(mat.Row)
    /\ op' = "AdjointProduct"
    /\ status' = "ok"
    /\ LET adj == Adjoint(mat)
       IN  out' = [left |-> MatMul(mat, adj), right |-> MatMul(adj, mat),
                   det |-> Det(mat)]
    /\ UNCHANGED <<vec, mat, arg, reads, rangeVars, brangeVars>>

\* auto adj = Adjoint(mat): rejected by the compiler for Size 1
AdjointCall ==
    /\ op = "none" /\ mat # NoMat /\ mat.Row = mat.Col
    /\ op' = "Adjoint"
    /\ IF AdjointInstantiates(mat.Row)
       THEN status' = "ok" /\ out' = Adjoint(mat)
       ELSE status' = "rejected" /\ out' = <<>>
    /\ UNCHANGED <<vec, mat, arg, reads, rangeVars, brangeVars>>

LinAlgNext ==
    \/ InverseCall \/ InverseTimesCall
    \/ DetCall \/ TraceCall \/ RankCall \/ AdjointCall
    \/ IsFullRankCall \/ AdjointProductCall

SpecLinAlg == LinAlgInit /\ [][LinAlgNext]_vars

----------------------------------------------------------------------------
\* Products of matrices: operator*, operator*= and KroneckerProduct

\* Mat<T, Row, Col>(): _data.fill(0)
ZeroMat(T, Row, Col) ==
    [T |-> T, Row |-> Row, Col |-> Col,
     data |-> [p \in 0..(Row * Col - 1) |-> Cast(T, 0)]]

\* operator*=: T sum = 0; sum += (*this)[r, k] * static_cast<T>(rhs[k, c])
\* for k = 0..Col-1
RECURSIVE MulAssignSum(_, _, _, _, _, _)
MulAssignSum(self, rhs, r, c, k, sum) ==
    IF k < self.Col
    THEN MulAssignSum(self, rhs, r, c, k + 1,
                      Add(self.T, sum,
                          Mul(self.T, MatGet(self, r, k), MatGet(rhs, k, c))))
    ELSE sum

\* operator*=: the loops over r and c, position p = r * Col + c, writing
\* temp[r, c]; rhs is a reference, the receiver itself when alias holds
RECURSIVE MulAssignLoop(_, _, _, _, _)
MulAssignLoop(self, rhs, alias, temp, p) ==
    IF p < self.Row * self.Col
    THEN LET r == p \div self.Col
             c == p % self.Col
             sum == MulAssignSum(self, IF alias THEN self ELSE rhs, r, c, 0,
                                 Cast(self.T, 0))
         IN  MulAssignLoop(self, rhs, alias,
                           [temp EXCEPT !.data[FlatIndex(temp, r, c)] = sum],
                           p + 1)
    ELSE temp

\* the loops of operator*= writing (*this)[r, c] instead of temp[r, c]
RECURSIVE MulAssignLoop_InPlace(_, _, _, _)
MulAssignLoop_InPlace(self, rhs, alias, p) ==
    IF p < self.Row * self.Col
    THEN LET r == p \div self.Col
             c == p % self.Col
             sum == MulAssignSum(self, IF alias THEN self ELSE rhs, r, c, 0,
                                 Cast(self.T, 0))
         IN  MulAssignLoop_InPlace(
                 [self EXCEPT !.data[FlatIndex(self, r, c)] = sum],
                 rhs, alias, p + 1)
    ELSE self

\* operator*= without the temporary
MulAssign_InPlace(self, rhs, alias) ==
    MulAssignLoop_InPlace(self, rhs, alias, 0)

\* operator*=(const Mat<U, Col, Col> &rhs): the new value of *this, which is
\* temp, assigned after the loops
MulAssign(self, rhs, alias) ==
    MulAssignLoop(self, rhs, alias, ZeroMat(self.T, self.Row, self.Col), 0)

\* KroneckerProduct with the blocks interleaved
KronTarget_Interleaved(lhs, rhs, i, j, k, l) ==
    (k * lhs.Row + i) * (lhs.Col * rhs.Col) + (l * lhs.Col + j)

\* KroneckerProduct: the flat position of result[i * Row2 + k, j * Col2 + l]
KronTarget(lhs, rhs, i, j, k, l) ==
    (i * rhs.Row + k) * (lhs.Col * rhs.Col) + (j * rhs.Col + l)

\* KroneckerProduct: the four nested loops, n counting the iterations in
\* order (i outermost, l innermost); writes counts the stores to each entry
RECURSIVE KronLoop(_, _, _, _, _)
KronLoop(lhs, rhs, n, result, writes) ==
    IF n < lhs.Row * lhs.Col * rhs.Row * rhs.Col
    THEN LET l == n % rhs.Col
             k == (n \div rhs.Col) % rhs.Row
             j == (n \div (rhs.Col * rhs.Row)) % lhs.Col
             i == n \div (rhs.Col * rhs.Row * lhs.Col)
             scalar == MatGet(lhs, i, j)
             t == KronTarget(lhs, rhs, i, j, k, l)
         IN  KronLoop(lhs, rhs, n + 1,
                      [result EXCEPT !.data[t] =
                          Mul(lhs.T, scalar, MatGet(rhs, k, l))],
                      [writes EXCEPT ![t] = @ + 1])
    ELSE [value |-> result, writes |-> writes]

\* KroneckerProduct(lhs, rhs)
KroneckerProduct(lhs, rhs) ==
    KronLoop(lhs, rhs, 0,
             ZeroMat(lhs.T, lhs.Row * rhs.Row, lhs.Col * rhs.Col),
             [p \in 0..(lhs.Row * rhs.Row * lhs.Col * rhs.Col - 1) |-> 0])

\* the shapes of the operands: 1..MaxDim rows and columns, at most maxEntries
\* elements
Shapes(maxEntries) ==
    {sh \in (1..MaxDim) \X (1..MaxDim) : sh[1] * sh[2] <= maxEntries}

\* the matrices of a shape with entries in 0..MaxVal3, of kind T
MatsOf(T, sh) ==
    {WithType([T |-> "int", Row |-> sh[1], Col |-> sh[2], data |-> d], T) :
        d \in [0..(sh[1] * sh[2] - 1) -> 0..MaxVal3]}

\* the matrix of a shape with entries 1, 2, 3, ... in row-major order
IotaMat(T, Row, Col) ==
    WithType([T |-> "int", Row |-> Row, Col |-> Col, data |-> Iota(Row * Col)],
             T)

\* the left operands: every matrix of an integer type with at most
\* MaxLhsEntries elements, of a floating type with at most MaxRhsEntries, and
\* the 3x3 matrix 1..9
LhsInputs ==
    UNION {MatsOf("int", sh) : sh \in Shapes(MaxLhsEntries)}
    \cup UNION {MatsOf("double", sh) : sh \in Shapes(MaxRhsEntries)}
    \cup {IotaMat(T, 3, 3) : T \in {"int", "double"}}

\* the right operands of a product with a matrix of Col columns: Col rows, of
\* the same element type; every matrix of at most MaxRhsEntries elements and
\* the matrices 1, 2, 3, ... with 1..MaxDim columns
RhsInputs(T, Col) ==
    UNION {MatsOf(T, sh) : sh \in {x \in Shapes(MaxRhsEntries) : x[1] = Col}}
    \cup {IotaMat(T, Col, K) : K \in 1..MaxDim}

MatOpsInit ==
    /\ vec = NoVec
    /\ mat \in LhsInputs
    /\ op = "none"
    /\ arg = <<>>
    /\ status = "none"
    /\ out = <<>>
    /\ reads = {}
    /\ RangeIdle
    /\ BRangeIdle

\* auto p = mat * rhs; arg records rhs as passed and as it is afterwards
MatMulCall ==
    /\ op = "none"
    /\ \E rhs \in RhsInputs(mat.T, mat.Col) :
          /\ op' = "MatMul"
          /\ arg' = [rhs |-> rhs, alias |-> FALSE, rhsAfter |-> rhs]
          /\ status' = "ok"
          /\ out' = MatMul(mat, rhs)
    /\ UNCHANGED <<vec, mat, reads, rangeVars, brangeVars>>

\* auto p = mat * mat
MatMulSelfCall ==
    /\ op = "none" /\ mat.Row = mat.Col
    /\ op' = "MatMul"
    /\ arg' = [rhs |-> mat, alias |-> TRUE, rhsAfter |-> mat]
    /\ status' = "ok"
    /\ out' = MatMul(mat, mat)
    /\ UNCHANGED <<vec, mat, reads, rangeVars, brangeVars>>

\* mat *= rhs, for a square mat
MulAssignCall ==
    /\ op = "none" /\ mat.Row = mat.Col
    /\ \E rhs \in RhsInputs(mat.T, mat.Col) :
          /\ rhs.Col = mat.Col
          /\ op' = "MulAssign"
          /\ arg' = [rhs |-> rhs, alias |-> FALSE, rhsAfter |-> rhs]
          /\ status' = "ok"
          /\ mat' = MulAssign(mat, rhs, FALSE)
          /\ out' = mat'
    /\ UNCHANGED <<vec, reads, rangeVars, brangeVars>>

\* mat *= mat: rhs refers to the receiver
MulAssignSelfCall ==
    /\ op = "none" /\ mat.Row = mat.Col
    /\ op' = "MulAssign"
    /\ status' = "ok"
    /\ mat' = MulAssign(mat, mat, TRUE)
    /\ arg' = [rhs |-> mat, alias |-> TRUE, rhsAfter |-> mat']
    /\ out' = mat'
    /\ UNCHANGED <<vec, reads, rangeVars, brangeVars>>

\* auto kp = KroneckerProduct(mat, rhs), rhs of any shape
KroneckerCall ==
    /\ op = "none"
    /\ \E Row2 \in 1..(MaxDim - 1), Col2 \in 1..MaxDim :
          LET rhs == IotaMat(mat.T, Row2, Col2)
              res == KroneckerProduct(mat, rhs)
          IN  /\ op' = "Kronecker"
              /\ arg' = [rhs |-> rhs, writes |-> res.writes]
              /\ status' = "ok"
              /\ out' = res.value
    /\ UNCHANGED <<vec, mat, reads, rangeVars, brangeVars>>

\* Transpose that keeps the elements in their stored order
Transpose_SameOrder(m) == [m EXCEPT !.Row = m.Col, !.Col = m.Row]

\* Transpose(mat): result[c, r] = mat[r, c] into a Mat<T, Col, Row>
Transpose(m) ==
    [T |-> m.T, Row |-> m.Col, Col |-> m.Row,
     data |-> [p \in 0..(m.Col * m.Row - 1) |->
                  LET c == p \div m.Row
                      r == p % m.Row
                  IN  MatGet(m, r, c)]]

\* MinorMatrix without the test on the column
MinorSkips_RowOnly(axis, index, omit) == axis = "row" /\ index = omit

\* MinorMatrix: `if (r == omitRow) continue;` and `if (c == omitCol) continue;`
MinorSkips(axis, index, omit) == index = omit

\* MinorMatrix: the loop over the columns c of row r, writing result[rr, cc];
\* acc holds the result, the number of stores to each of its cells and the
\* number of stores past the end of its buffer (result[rr, cc] is
\* _data[rr * (Col - 1) + cc], without a test on rr or cc)
RECURSIVE MinorCols(_, _, _, _, _, _)
MinorCols(m, omitCol, r, rr, c, st) ==
    IF c >= m.Col THEN st.acc
    ELSE IF MinorSkips("col", c, omitCol)
         THEN MinorCols(m, omitCol, r, rr, c + 1, st)
         ELSE LET t == rr * (m.Col - 1) + st.cc
                  inside == t < (m.Row - 1) * (m.Col - 1)
                  a == st.acc
              IN  MinorCols(m, omitCol, r, rr, c + 1,
                      [cc |-> st.cc + 1,
                       acc |-> IF inside
                               THEN [a EXCEPT
                                        !.result.data[t] = MatGet(m, r, c),
                                        !.writes[t] = @ + 1]
                               ELSE [a EXCEPT !.outside = @ + 1]])

\* MinorMatrix: the loop over the rows r, rr counting the rows kept
RECURSIVE MinorRows(_, _, _, _, _, _)
MinorRows(m, omitRow, omitCol, r, rr, acc) ==
    IF r >= m.Row THEN acc
    ELSE IF MinorSkips("row", r, omitRow)
         THEN MinorRows(m, omitRow, omitCol, r + 1, rr, acc)
         ELSE MinorRows(m, omitRow, omitCol, r + 1, rr + 1,
                        MinorCols(m, omitCol, r, rr, 0,
                                  [cc |-> 0, acc |-> acc]))

\* MinorMatrix(mat, omitRow, omitCol), store by store
MinorMatrixStores(m, omitRow, omitCol) ==
    MinorRows(m, omitRow, omitCol, 0, 0,
              [result |-> ZeroMat(m.T, m.Row - 1, m.Col - 1),
               writes |-> [t \in 0..((m.Row - 1) * (m.Col - 1) - 1) |-> 0],
               outside |-> 0])

\* auto t = Transpose(mat)
TransposeCall ==
    /\ op = "none"
    /\ op' = "Transpose"
    /\ status' = "ok"
    /\ out' = Transpose(mat)
    /\ UNCHANGED <<vec, mat, arg, reads, rangeVars, brangeVars>>

\* auto t = Transpose(Transpose(mat))
TransposeTwiceCall ==
    /\ op = "none"
    /\ op' = "TransposeTwice"
    /\ status' = "ok"
    /\ out' = Transpose(Transpose(mat))
    /\ UNCHANGED <<vec, mat, arg, reads, rangeVars, brangeVars>>

\* auto mm = MinorMatrix(mat, omitRow, omitCol), Row > 1 && Col > 1 being a
\* static_assert; omitRow and omitCol are run-time values, Row and Col
\* included; a store past the end of the result is undefined behaviour
MinorCall ==
    /\ op = "none" /\ mat.Row > 1 /\ mat.Col > 1
    /\ \E omitRow \in 0..mat.Row, omitCol \in 0..mat.Col :
          LET res == MinorMatrixStores(mat, omitRow, omitCol) IN
          /\ op' = "MinorMatrix"
          /\ arg' = [omitRow |-> omitRow, omitCol |-> omitCol,
                     writes |-> res.writes, outside |-> res.outside]
          /\ \/ status' = "ok" /\ out' = res.result
             \/ res.outside > 0 /\ status' = "fault" /\ out' = <<>>
    /\ UNCHANGED <<vec, mat, reads, rangeVars, brangeVars>>

MatOpsNext ==
    \/ MatMulCall \/ MatMulSelfCall \/ MulAssignCall \/ MulAssignSelfCall
    \/ KroneckerCall \/ TransposeCall \/ TransposeTwiceCall \/ MinorCall

SpecMatOps == MatOpsInit /\ [][MatOpsNext]_vars

----------------------------------------------------------------------------
\* The vector functions of vec.hpp.  Here a Vec carries its element kind:
\* [T, N, data] with data \in [0..N-1 -> elements of T].

\* x > 0
Positive(T, x) == IF T = "int" THEN x > 0 ELSE x[1] > 0

\* the largest r with r * r <= n, for n >= 0
ISqrt(n) == CHOOSE r \in 0..n : r * r <= n /\ (r + 1) * (r + 1) > n

\* n is a perfect square
IsSquare(n) == n >= 0 /\ ISqrt(n) * ISqrt(n) = n

\* sqrt(x) has an exact value in T: always for an integer T, whose result is
\* truncated; for a floating T when x is the square of a rational
SqrtExact(T, x) ==
    IF T = "int" THEN x >= 0 ELSE IsSquare(x[1]) /\ IsSquare(x[2])

\* the T that `return sqrt(sum)` yields: the root computed in floating point,
\* truncated toward zero by the conversion to an integer T
Sqrt(T, x) == IF T = "int" THEN ISqrt(x) ELSE <<ISqrt(x[1]), ISqrt(x[2])>>

\* Length: T sum = 0; sum += v[i] * v[i] for i = 0..N-1
RECURSIVE SquareSum(_, _, _)
SquareSum(v, i, sum) ==
    IF i < v.N
    THEN SquareSum(v, i + 1, Add(v.T, sum, Mul(v.T, v.data[i], v.data[i])))
    ELSE sum

\* Length(v)
Length(v) == Sqrt(v.T, SquareSum(v, 0, Cast(v.T, 0)))

\* operator/(Vec, scalar): result[i] = lhs[i] / rhs for every i; divisors are
\* the values divided by; a quotient by zero has no defined value
VecDivScalar(v, x) ==
    [value |-> [v EXCEPT !.data =
                   [i \in DOMAIN v.data |->
                       IF x = Cast(v.T, 0) THEN "undefined"
                       ELSE Div(v.T, v.data[i], x)]],
     divisors |-> IF v.N > 0 THEN {x} ELSE {}]

\* Vec<T, N>{}: _data.fill(0)
ZeroVec(T, N) == [T |-> T, N |-> N, data |-> [i \in 0..(N - 1) |-> Cast(T, 0)]]

\* Normalize that divides whatever the length is
Normalize_NoGuard(v) == VecDivScalar(v, Length(v))

\* Normalize(v): v / len when len > 0, else Vec<T, N>{}
Normalize(v) ==
    LET len == Length(v)
    IN  IF Positive(v.T, len)
        THEN VecDivScalar(v, len)
        ELSE [value |-> ZeroVec(v.T, v.N), divisors |-> {}]

\* Dot: the fold (vecs[i] * ...) over the vectors j..k of the pack, from the
\* right
RECURSIVE DotFold(_, _, _)
DotFold(vecs, i, j) ==
    IF j = Len(vecs) THEN vecs[j].data[i]
    ELSE Mul(vecs[1].T, vecs[j].data[i], DotFold(vecs, i, j + 1))

\* Dot: total_sum += (vecs[i] * ...) for i = 0..N-1
RECURSIVE DotLoop(_, _, _)
DotLoop(vecs, i, total_sum) ==
    IF i < vecs[1].N
    THEN DotLoop(vecs, i + 1, Add(vecs[1].T, total_sum, DotFold(vecs, i, 1)))
    ELSE total_sum

\* Dot with the sum started at the first product
Dot_FromOne(vecs) == DotLoop(vecs, 0, Cast(vecs[1].T, 1))

\* Dot(vecs...): two or more vectors of the same dimension
Dot(vecs) == DotLoop(vecs, 0, Cast(vecs[1].T, 0))

\* the vector with the given elements, of kind T
MakeVec(T, elems) ==
    [T |-> T, N |-> Len(elems),
     data |-> [i \in 0..(Len(elems) - 1) |-> Cast(T, elems[i + 1])]]

\* the vectors of the driver and of the documentation
NamedVecs == {<<1, 2, 3>>, <<4, 5, 6>>, <<3, 4>>, <<3, 4, 0>>, <<0, -2>>}

\* integer-valued vectors of 1..MaxLen elements in -MaxVal3..MaxVal3, and the
\* named ones
IntVecs ==
    UNION {[1..n -> -MaxVal3..MaxVal3] : n \in 1..MaxLen} \cup NamedVecs

\* vectors of a floating type with one or two elements k / FixedScale
FractionVecs ==
    UNION {{[T |-> "double", N |-> n,
             data |-> [i \in 0..(n - 1) |-> Rat(d[i + 1], FixedScale)]] :
               d \in [1..n -> -(2 * MaxVal)..(2 * MaxVal)]} :
           n \in 1..2}

VecOpInputs ==
    {MakeVec(T, e) : T \in {"int", "double"}, e \in IntVecs}
    \cup FractionVecs

\* the further arguments of Dot: a second vector with elements in
\* 0..MaxVal3 or a named one, then possibly a third, 1, 2, 3, ...
DotOthers(T, N) ==
    LET second == {MakeVec(T, e) :
                      e \in [1..N -> 0..MaxVal3]
                            \cup {x \in NamedVecs : Len(x) = N}}
        third == MakeVec(T, [i \in 1..N |-> i])
    IN  {<<b>> : b \in second} \cup {<<b, third>> : b \in second}

VecOpsInit ==
    /\ vec \in VecOpInputs
    /\ mat = NoMat
    /\ op = "none"
    /\ arg = <<>>
    /\ status = "none"
    /\ out = <<>>
    /\ reads = {}
    /\ RangeIdle
    /\ BRangeIdle

\* auto d = Dot(vec, others...)
DotCall ==
    /\ op = "none"
    /\ \E others \in DotOthers(vec.T, vec.N) :
          /\ op' = "Dot"
          /\ arg' = [vecs |-> <<vec>> \o others]
          /\ status' = "ok"
          /\ out' = Dot(<<vec>> \o others)
    /\ UNCHANGED <<vec, mat, reads, rangeVars, brangeVars>>

\* T len = Length(vec), for a vec whose length has an exact value in T
LengthCall ==
    /\ op = "none"
    /\ SqrtExact(vec.T, SquareSum(vec, 0, Cast(vec.T, 0)))
    /\ op' = "Length"
    /\ status' = "ok"
    /\ out' = Length(vec)
    /\ UNCHANGED <<vec, mat, arg, reads, rangeVars, brangeVars>>

\* auto n = Normalize(vec), for a vec whose length has an exact value in T;
\* arg records the values divided by
NormalizeCall ==
    /\ op = "none"
    /\ SqrtExact(vec.T, SquareSum(vec, 0, Cast(vec.T, 0)))
    /\ LET res == Normalize(vec) IN
          /\ op' = "Normalize"
          /\ arg' = [divisors |-> res.divisors]
          /\ status' = "ok"
          /\ out' = res.value
    /\ UNCHANGED <<vec, mat, reads, rangeVars, brangeVars>>

\* operator-(Vec, Vec): result[i] = lhs[i] - rhs[i]
VecSub(a, b) ==
    [a EXCEPT !.data = [i \in DOMAIN a.data |-> Sub(a.T, a.data[i], b.data[i])]]

\* a T value as a rational
ToRat(T, x) == IF T = "int" THEN <<x, 1>> ELSE x

\* std::sqrt(x) as a floating value: the non-negative real whose square is
\* x, held as [sq |-> x]; the root is not rounded
RealSqrt(T, x) == [sq |-> ToRat(T, x)]

\* Distance(a, b): diff[i] = a[i] - b[i]; std::sqrt(Dot(diff, diff))
Distance(a, b) ==
    LET diff == VecSub(a, b)
    IN  RealSqrt(a.T, Dot(<<diff, diff>>))

\* auto l = Length(Normalize(vec)), for a vec whose length has an exact
\* value in T
NormalizeLengthCall ==
    /\ op = "none"
    /\ SqrtExact(vec.T, SquareSum(vec, 0, Cast(vec.T, 0)))
    /\ LET n == Normalize(vec).value IN
          /\ SqrtExact(vec.T, SquareSum(n, 0, Cast(vec.T, 0)))
          /\ op' = "NormalizeLength"
          /\ status' = "ok"
          /\ out' = Length(n)
    /\ UNCHANGED <<vec, mat, arg, reads, rangeVars, brangeVars>>

\* auto d = Distance(vec, b); auto l = Length(vec - b), for a difference
\* whose length has an exact value in T
DistanceCall ==
    /\ op = "none"
    /\ \E others \in DotOthers(vec.T, vec.N) :
          /\ Len(others) = 1
          /\ SqrtExact(vec.T,
                       SquareSum(VecSub(vec, others[1]), 0, Cast(vec.T, 0)))
          /\ op' = "Distance"
          /\ arg' = [b |-> others[1]]
          /\ status' = "ok"
          /\ out' = [distance |-> Distance(vec, others[1]),
                     length |-> Length(VecSub(vec, others[1]))]
    /\ UNCHANGED <<vec, mat, reads, rangeVars, brangeVars>>

VecOpsNext ==
    \/ DotCall \/ LengthCall \/ NormalizeCall
    \/ NormalizeLengthCall \/ DistanceCall

SpecVecOps == VecOpsInit /\ [][VecOpsNext]_vars

----------------------------------------------------------------------------
\* The in-place compound operators of vec.hpp and mat.hpp.  Objects have
\* names, a store gives every name its value and a reference is a name.

IsVec(o) == "N" \in DOMAIN o

\* the number of elements of _data
BufLen(o) == IF IsVec(o) THEN o.N ELSE o.Row * o.Col

\* the overloads declared: Vec has += -= *= /= with a Vec or a T and ^= with
\* a Vec under requires(N == 3), which a scalar reaches through the
\* converting constructor Vec(T num); Mat has += -= with a Mat or a T, *=
\* with a scalar and *= with a Mat under static_assert(Row == Col)
OperatorExists(self, opname, operand) ==
    IF IsVec(self)
    THEN opname = "^=" => self.N = 3
    ELSE \/ opname \in {"+=", "-="}
         \/ opname = "*=" /\ (operand.kind = "object" => self.Row = self.Col)

\* the right operand as the loop reads it at position i: `other._data[i]`
\* of the object referred to, or `value`, a const T & bound to a temporary
\* or to an element of an object
OperandAt(store, operand, i) ==
    CASE operand.kind = "object" -> store[operand.name].data[i]
      [] operand.kind = "value" -> operand.value
      [] operand.kind = "element" -> store[operand.name].data[operand.index]

\* compound operators that all add
ElemAssign_AddOnly(T, opname, x, y) == Add(T, x, y)

\* _data[i] += y, -= y, *= y, /= y in the element type, y # 0 for /=
ElemAssign(T, opname, x, y) ==
    CASE opname = "+=" -> Add(T, x, y)
      [] opname = "-=" -> Sub(T, x, y)
      [] opname = "*=" -> Mul(T, x, y)
      [] opname = "/=" -> Div(T, x, y)

\* an operator that returns a copy of the receiver
ReturnCopy(store, self, st) ==
    [store |-> [n \in DOMAIN store \cup {"copy"} |->
                   IF n = "copy" THEN store[self] ELSE store[n]],
     ret |-> "copy", status |-> st]

\* return *this
ReturnThis(store, self, st) ==
    [store |-> store, ret |-> self, status |-> st]

\* for (i = 0; i < N; ++i) _data[i] op= operand.  An integer division by
\* zero is undefined: it traps (ub.trap) or leaves the value ub.value.  A
\* floating division by zero gives no finite value: the loop stops with
\* status "nonfinite"
RECURSIVE CompoundLoop(_, _, _, _, _, _)
CompoundLoop(store, opname, self, operand, i, ub) ==
    IF i >= BufLen(store[self]) THEN ReturnThis(store, self, "ok")
    ELSE LET T == store[self].T
             x == store[self].data[i]
             y == OperandAt(store, operand, i)
             byZero == opname = "/=" /\ y = Cast(T, 0)
         IN  IF byZero /\ T # "int" THEN ReturnThis(store, self, "nonfinite")
             ELSE IF byZero /\ ub.trap THEN ReturnThis(store, self, "fault")
             ELSE CompoundLoop(
                      [store EXCEPT ![self].data[i] =
                          IF byZero THEN ub.value ELSE ElemAssign(T, opname, x, y)],
                      opname, self, operand, i + 1, ub)

\* operator^ and operator^=: component k of the cross product, read from the
\* store as it is
CrossComponent(store, self, other, k) ==
    LET T == store[self].T
        a == store[self].data
        b == store[other].data
        k1 == (k + 1) % 3
        k2 == (k + 2) % 3
    IN  Sub(T, Mul(T, a[k1], b[k2]), Mul(T, a[k2], b[k1]))

\* operator^= storing each component as soon as it is computed
CrossAssign_InPlace(store, self, other) ==
    LET s1 == [store EXCEPT ![self].data[0] = CrossComponent(store, self, other, 0)]
        s2 == [s1 EXCEPT ![self].data[1] = CrossComponent(s1, self, other, 1)]
    IN  [s2 EXCEPT ![self].data[2] = CrossComponent(s2, self, other, 2)]

\* operator^=: T x, y, z are computed, then _data[0], _data[1], _data[2] are
\* assigned
CrossAssign(store, self, other) ==
    LET x == CrossComponent(store, self, other, 0)
        y == CrossComponent(store, self, other, 1)
        z == CrossComponent(store, self, other, 2)
    IN  [store EXCEPT ![self].data = (0 :> x @@ 1 :> y @@ 2 :> z)]

\* the statement `self opname operand`: the store afterwards, the object the
\* returned reference names and the status ("rejected" when no overload
\* accepts the call).  A scalar given to ^= becomes the temporary
\* Vec(T num), every element num, which lives until the statement ends
Compound(store, opname, self, operand, ub) ==
    LET me == store[self] IN
    IF ~OperatorExists(me, opname, operand)
    THEN [store |-> store, ret |-> "none", status |-> "rejected"]
    ELSE IF opname = "^=" /\ operand.kind = "object"
    THEN ReturnThis(CrossAssign(store, self, operand.name), self, "ok")
    ELSE IF opname = "^="
    THEN LET converted == [me EXCEPT !.data =
                              [i \in DOMAIN me.data |->
                                  OperandAt(store, operand, 0)]]
             withTemp == [n \in DOMAIN store \cup {"converted"} |->
                             IF n = "converted" THEN converted ELSE store[n]]
             after == CrossAssign(withTemp, self, "converted")
         IN  ReturnThis([n \in DOMAIN store |-> after[n]], self, "ok")
    ELSE IF ~IsVec(me) /\ opname = "*=" /\ operand.kind = "object"
    THEN ReturnThis([store EXCEPT ![self] =
                        MulAssign(me, store[operand.name],
                                  operand.name = self)],
                    self, "ok")
    ELSE CompoundLoop(store, opname, self, operand, 0, ub)

OpNames == {"+=", "-=", "*=", "/=", "^="}

\* what an integer division by zero may do
DivOutcomes(ops) ==
    {[trap |-> TRUE, value |-> 0]}
    \cup {[trap |-> FALSE, value |-> g] :
             g \in IF \E k \in DOMAIN ops : ops[k] = "/=" THEN Garbage ELSE {}}

\* the receivers: 3-vectors with elements in 0..MaxVal3, the named vectors,
\* 2x2 matrices with entries in 0..MaxVal3 and the matrices 1..4 and 1..6
CompoundReceivers ==
    {MakeVec(T, e) : T \in {"int", "double"},
                     e \in [1..3 -> 0..MaxVal3] \cup NamedVecs}
    \cup {[T |-> T, Row |-> 2, Col |-> 2, data |-> [k \in 0..3 |-> Cast(T, d[k])]] :
             T \in {"int", "double"}, d \in [0..3 -> 0..MaxVal3]}
    \cup {IotaMat(T, 2, c) : T \in {"int", "double"}, c \in {2, 3}}

\* an object of the receiver's type with element i holding f[i]
SameTypeAs(o, f) ==
    [o EXCEPT !.data = [i \in DOMAIN o.data |-> Cast(o.T, f[i])]]

\* the objects next to the receiver: rhs holding c, c, ... for c in
\* 0..MaxVal3, or 0, 1, 0, ..., or n, ..., 2, 1, and third holding 1, 2, ...
CompoundStores(o) ==
    {[self |-> o, rhs |-> SameTypeAs(o, f),
      third |-> SameTypeAs(o, [i \in DOMAIN o.data |-> i + 1])] :
        f \in {[i \in DOMAIN o.data |-> c] : c \in 0..MaxVal3}
              \cup {[i \in DOMAIN o.data |-> IF i = 1 THEN 1 ELSE 0],
                    [i \in DOMAIN o.data |-> BufLen(o) - i]}}

\* the right operands: the object rhs, the receiver itself, a scalar of the
\* element type, or the receiver's first element bound to the const T &
Operands(o) ==
    {[kind |-> "object", name |-> n] : n \in {"rhs", "self"}}
    \cup {[kind |-> "value", value |-> Cast(o.T, s)] : s \in -MaxVal..MaxVal}
    \cup {[kind |-> "element", name |-> "self", index |-> 0]}

\* an operand that shares no storage with the receiver
Distinct(operand) == operand.kind = "value" \/ operand.name # "self"

CompoundInit ==
    /\ \E o \in CompoundReceivers :
          IF IsVec(o) THEN vec = o /\ mat = NoMat ELSE vec = NoVec /\ mat = o
    /\ op = "none"
    /\ arg = <<>>
    /\ status = "none"
    /\ out = <<>>
    /\ reads = {}
    /\ RangeIdle
    /\ BRangeIdle

Receiver == IF vec # NoVec THEN vec ELSE mat

\* the receiver takes the value its object has in the store
ReceiverBecomes(o) ==
    IF vec # NoVec THEN vec' = o /\ mat' = mat ELSE mat' = o /\ vec' = vec

\* self opname operand;
CompoundCall ==
    /\ op = "none"
    /\ \E store \in CompoundStores(Receiver), opname \in OpNames,
          operand \in Operands(Receiver) :
       \E ub \in DivOutcomes(<<opname>>) :
          LET r == Compound(store, opname, "self", operand, ub) IN
          /\ r.status # "nonfinite"
          /\ op' = "Compound"
          /\ arg' = [ops |-> <<opname>>, operand |-> operand, ub |-> ub,
                     before |-> store, after |-> r.store]
          /\ status' = r.status
          /\ out' = r.ret
          /\ ReceiverBecomes(r.store["self"])
    /\ UNCHANGED <<reads, rangeVars, brangeVars>>

\* (self op1 operand) op2 third;
ChainCall ==
    /\ op = "none"
    /\ \E store \in CompoundStores(Receiver), op1 \in OpNames, op2 \in OpNames,
          operand \in {x \in Operands(Receiver) :
                          \/ x.kind = "object"
                          \/ x.kind = "value" /\ x.value = Cast(Receiver.T, MaxVal)} :
       \E ub \in DivOutcomes(<<op1, op2>>) :
          LET r1 == Compound(store, op1, "self", operand, ub)
              r2 == Compound(r1.store, op2, r1.ret,
                             [kind |-> "object", name |-> "third"], ub)
          IN
          /\ r1.status = "ok" /\ r2.status \in {"ok", "fault"}
          /\ op' = "Chain"
          /\ arg' = [ops |-> <<op1, op2>>, operand |-> operand, ub |-> ub,
                     before |-> store, after |-> r2.store]
          /\ status' = r2.status
          /\ out' = r2.ret
          /\ ReceiverBecomes(r2.store["self"])
    /\ UNCHANGED <<reads, rangeVars, brangeVars>>

\* self op1 operand; self op2 operand;
SequenceCall ==
    /\ op = "none"
    /\ \E store \in CompoundStores(Receiver), operand \in Operands(Receiver),
          ops \in {<<"+=", "-=">>, <<"*=", "/=">>} :
       \E ub \in DivOutcomes(ops) :
          LET r1 == Compound(store, ops[1], "self", operand, ub)
              r2 == Compound(r1.store, ops[2], "self", operand, ub)
          IN
          /\ r1.status = "ok" /\ r2.status \in {"ok", "fault"}
          /\ op' = "Sequence"
          /\ arg' = [ops |-> ops, operand |-> operand, ub |-> ub,
                     before |-> store, after |-> r2.store]
          /\ status' = r2.status
          /\ out' = r2.ret
          /\ ReceiverBecomes(r2.store["self"])
    /\ UNCHANGED <<reads, rangeVars, brangeVars>>

CompoundNext == CompoundCall \/ ChainCall \/ SequenceCall

SpecCompound == CompoundInit /\ [][CompoundNext]_vars

----------------------------------------------------------------------------
\* C1: for every (start, end, step), Range::size() and StaticRange::size are 0
\* when step is 0 or the sign of (end - start) disagrees with the sign of
\* step, and ceil(|end - start| / |step|) otherwise.
SizeBySpec(r) ==
    IF r.step = 0 THEN 0
    ELSE IF (r.end - r.start > 0) # (r.step > 0) \/ r.end = r.start THEN 0
    ELSE CeilDiv(Abs(r.end - r.start), Abs(r.step))

C1_SizeIsCeil ==
    /\ rsize # <<>> => rsize[1] = SizeBySpec(rng)
    /\ ssize # <<>> => ssize[1] = SizeBySpec(rng)

\* C2: the loop over a runtime Range terminates and yields exactly size()
\* values; a range whose size() is 0 yields no value.
C2_LoopYieldsSize ==
    /\ Len(yielded) <= RangeSize(rng)
    /\ rpc = "done" => Len(yielded) = RangeSize(rng)

\* C5: every index MakeAccessIndices() returns for an accepted Range<S> lies
\* in [0, S).
C5_IndicesInBound ==
    bstatus = "indexed" =>
        \A k \in 1..Len(indices) : indices[k] >= 0 /\ indices[k] < brange.S

----------------------------------------------------------------------------
\* the indices a StaticRange produces all lie in [0, Bound)
AllInBound(r, Bound) ==
    \A k \in 1..Len(StaticRangeIndices(r)) :
        StaticRangeIndices(r)[k] >= 0 /\ StaticRangeIndices(r)[k] < Bound

\* C3: a slice of a Vec<T,N> by a StaticRange, or of a Mat<T,Rows,Cols> by a
\* row and a column StaticRange, is accepted only if (indeed exactly if) every
\* index the range produces lies in [0,N), resp. [0,Rows) and [0,Cols); an
\* accepted slice reads no position outside the source buffer.
C3_SliceInBounds ==
    /\ op = "VecSlice" =>
          /\ status \in {"ok", "rejected"}
          /\ status = "ok" <=> AllInBound(arg.range, vec.N)
          /\ status = "ok" => reads \subseteq 0..(vec.N - 1)
    /\ op = "MatSlice" =>
          /\ status \in {"ok", "rejected"}
          /\ status = "ok" <=>
                (AllInBound(arg.rr, mat.Row) /\ AllInBound(arg.rc, mat.Col))
          /\ status = "ok" => reads \subseteq 0..(mat.Row * mat.Col - 1)

\* an accepted matrix slice with stride 2 down the rows and stride -1 back
\* along the columns, at least two indices on each axis
C3_Witness ==
    /\ op = "MatSlice" /\ status = "ok"
    /\ arg.rr.step = 2 /\ Len(StaticRangeIndices(arg.rr)) >= 2
    /\ arg.rc.step = -1 /\ Len(StaticRangeIndices(arg.rc)) >= 2

\* C4: the slice of a matrix by StaticRange<RS,RE,RStep> and
\* StaticRange<CS,CE,CStep> has (row range size) x (column range size)
\* elements, element (i, j) being source[RS + i*RStep, CS + j*CStep]; the 3x3
\* identity sliced by [0,2) on both axes is the 2x2 identity.
C4_SliceContents ==
    (op = "MatSlice" /\ status = "ok") =>
        LET R == SizeBySpec(arg.rr)
            C == SizeBySpec(arg.rc)
        IN  /\ out.Row = R /\ out.Col = C
            /\ DOMAIN out.data = 0..(R * C - 1)
            /\ \A i \in 0..(R - 1), j \in 0..(C - 1) :
                  out.data[i * C + j] =
                     mat.data[(arg.rr.start + i * arg.rr.step) * mat.Col
                              + arg.rc.start + j * arg.rc.step]
            /\ ( /\ mat = MakeIdentity("int", 3)
                 /\ arg.rr = [start |-> 0, end |-> 2, step |-> 1]
                 /\ arg.rc = [start |-> 0, end |-> 2, step |-> 1] )
               => out = MakeIdentity("int", 2)

\* the 3x3 identity sliced by [0,2) x [0,2)
C4_Witness ==
    /\ op = "MatSlice" /\ status = "ok"
    /\ mat = MakeIdentity("int", 3)
    /\ arg.rr = [start |-> 0, end |-> 2, step |-> 1]
    /\ arg.rc = [start |-> 0, end |-> 2, step |-> 1]
    /\ out.Row = 2 /\ out.Col = 2

\* C6: the compile-time-checked index type of a Vec<T,N> rejects every literal
\* index i >= N and accepts every index i in [0, N).
C6_CheckedIndex ==
    op = "VecAtChecked" => (status = "rejected" <=> arg.index >= vec.N)

\* C7: every access with a run-time index fails fast with a bounds violation
\* when the index is out of range (Vec index, Mat flat index, Mat (row, col),
\* GetRow, GetCol), and an access in range reads the addressed element only.
C7_FailFast ==
    /\ (op = "VecAt" /\ arg.index >= vec.N) => status = "IndexOutOfRange"
    /\ (op = "MatAtFlat" /\ arg.index >= mat.Row * mat.Col)
          => status = "IndexOutOfRange"
    /\ (op = "MatAt" /\ (arg.row >= mat.Row \/ arg.col >= mat.Col))
          => status = "IndexOutOfRange"
    /\ (op = "GetRow" /\ arg.row >= mat.Row) => status = "IndexOutOfRange"
    /\ (op = "GetCol" /\ arg.col >= mat.Col) => status = "IndexOutOfRange"
    /\ (op = "VecAt" /\ arg.index < vec.N)
          => (status = "ok" /\ reads = {arg.index})
    /\ (op = "MatAt" /\ arg.row < mat.Row /\ arg.col < mat.Col)
          => (status = "ok" /\ reads = {arg.row * mat.Col + arg.col})

\* C8: constructing a Vec<T,N> or Mat<T,Rows,Cols> from a collection fails
\* with a size mismatch exactly when its length differs from N (Rows*Cols),
\* and from a list of rows with a row-count mismatch exactly when the number
\* of rows differs from Rows; otherwise element k is element k of the
\* collection (row r, column c at flat position r*Cols + c).
C8_CtorSizeCheck ==
    /\ op = "VecCtor" =>
          /\ status = "SizeMismatch" <=> Len(arg.coll) # arg.N
          /\ Len(arg.coll) = arg.N =>
                /\ status = "ok" /\ vec.N = arg.N
                /\ DOMAIN vec.data = 0..(arg.N - 1)
                /\ \A k \in 0..(arg.N - 1) : vec.data[k] = arg.coll[k + 1]
    /\ op = "MatCtorFlat" =>
          /\ status = "SizeMismatch" <=> Len(arg.coll) # arg.Row * arg.Col
          /\ Len(arg.coll) = arg.Row * arg.Col =>
                /\ status = "ok" /\ mat.Row = arg.Row /\ mat.Col = arg.Col
                /\ DOMAIN mat.data = 0..(arg.Row * arg.Col - 1)
                /\ \A k \in 0..(arg.Row * arg.Col - 1) :
                      mat.data[k] = arg.coll[k + 1]
    /\ op = "MatCtorRows" =>
          /\ status = "RowCountMismatch" <=> Len(arg.rows) # arg.Row
          /\ Len(arg.rows) = arg.Row =>
                /\ status = "ok" /\ mat.Row = arg.Row /\ mat.Col = arg.Col
                /\ \A r \in 0..(arg.Row - 1), c \in 0..(arg.Col - 1) :
                      mat.data[r * arg.Col + c] = arg.rows[r + 1][c + 1]

\* a 2x3 matrix built from a list of two rows
C8_Witness ==
    /\ op = "MatCtorRows" /\ status = "ok"
    /\ arg.Row = 2 /\ arg.Col = 3 /\ Len(arg.rows) = 2
    /\ mat.data[5] = arg.rows[2][3]

----------------------------------------------------------------------------
C10_InverseTimesIsIdentity ==
    /\ (op = "InverseTimes" /\ status = "ok") =>
          \A k \in 0..(mat.Row * mat.Col - 1) :
              AbsLtEps(mat.T,
                       Sub(mat.T, out.data[k],
                           Cast(mat.T, MakeIdentity("int", mat.Row).data[k])))
    /\ ( /\ op = "Inverse" /\ mat.T = "double" /\ mat.Row = 2
         /\ mat.data = [k \in 0..3 |-> <<k + 1, 1>>] ) =>
          out.data = (0 :> <<-2, 1>> @@ 1 :> <<1, 1>> @@
                      2 :> <<3, 2>> @@ 3 :> <<-1, 2>>)

----------------------------------------------------------------------------
\* Reference definitions of linear algebra, used to state the properties.

\* the permutations of 0..n-1
Perms(n) ==
    {p \in [0..(n - 1) -> 0..(n - 1)] :
        \A i, j \in 0..(n - 1) : i < j => p[i] # p[j]}

\* the sign of a permutation: +1 when its number of inversions is even
PermSign(p, n) ==
    IF Cardinality({ij \in (0..(n - 1)) \X (0..(n - 1)) :
                       ij[1] < ij[2] /\ p[ij[1]] > p[ij[2]]}) % 2 = 0
    THEN 1 ELSE -1

\* a[i, p[i]] * a[i+1, p[i+1]] * ... * a[n-1, p[n-1]]
RECURSIVE PermProduct(_, _, _)
PermProduct(m, p, i) ==
    IF i >= m.Row THEN Cast(m.T, 1)
    ELSE Mul(m.T, MatGet(m, i, p[i]), PermProduct(m, p, i + 1))

\* the sum of val[x] over x in S
RECURSIVE SumOver(_, _, _)
SumOver(T, S, val) ==
    IF S = {} THEN Cast(T, 0)
    ELSE LET x == CHOOSE y \in S : TRUE
         IN  Add(T, val[x], SumOver(T, S \ {x}, val))

\* the determinant by the Leibniz formula
LeibnizDet(m) ==
    LET P == Perms(m.Row)
    IN  SumOver(m.T, P,
                [p \in P |-> Mul(m.T, Cast(m.T, PermSign(p, m.Row)),
                                 PermProduct(m, p, 0))])

\* the k-th smallest element of a set of numbers, k from 0
Nth(S, k) == CHOOSE x \in S : Cardinality({y \in S : y < x}) = k

\* the matrix of the chosen rows and columns, in order
Submatrix(m, rows, cols) ==
    LET R == Cardinality(rows)
        C == Cardinality(cols)
    IN  [T |-> m.T, Row |-> R, Col |-> C,
         data |-> [p \in 0..(R * C - 1) |->
                      MatGet(m, Nth(rows, p \div C), Nth(cols, p % C))]]

\* some k x k minor of m is not zero
HasMinor(m, k) ==
    \E rows \in SUBSET (0..(m.Row - 1)), cols \in SUBSET (0..(m.Col - 1)) :
        /\ Cardinality(rows) = k /\ Cardinality(cols) = k
        /\ LeibnizDet(Submatrix(m, rows, cols)) # Cast(m.T, 0)

\* the number of linearly independent rows (columns): the size of the
\* largest minor that is not zero
TrueRank(m) ==
    LET Sizes == {k \in 1..(IF m.Row < m.Col THEN m.Row ELSE m.Col) :
                     HasMinor(m, k)}
    IN  IF Sizes = {} THEN 0 ELSE CHOOSE k \in Sizes : \A l \in Sizes : l <= k

\* the cofactor of (r, c): the minor's determinant, negated when r + c is odd
CofactorBySpec(m, r, c) ==
    LET d == LeibnizDet(Submatrix(m, (0..(m.Row - 1)) \ {r},
                                     (0..(m.Col - 1)) \ {c}))
    IN  IF (r + c) % 2 = 0 THEN d ELSE Neg(m.T, d)

\* the sum of the diagonal elements, in the element type
DiagSum(m) ==
    SumOver(m.T, 0..(m.Row - 1), [i \in 0..(m.Row - 1) |-> MatGet(m, i, i)])

\* m is the identity matrix of its size
IsIdentity(m) ==
    /\ m.Row = m.Col
    /\ m.data = WithType(MakeIdentity("int", m.Row), m.T).data

----------------------------------------------------------------------------
\* C11: Det of a square matrix is the first-row Laplace expansion (the element
\* for 1x1, ad - bc for 2x2, the sum over columns j of (-1)^j * a[0,j] *
\* det(minor(0, j)) for larger N) and equals the Leibniz determinant;
\* Det(Identity(N)) = 1 and Det({1, 2, 3, 4}) = -2.
C11_DetIsLaplace ==
    op = "Det" =>
        /\ out = LeibnizDet(mat)
        /\ mat.Row = 1 => out = mat.data[0]
        /\ mat.Row = 2 =>
              out = Sub(mat.T, Mul(mat.T, mat.data[0], mat.data[3]),
                               Mul(mat.T, mat.data[1], mat.data[2]))
        /\ mat.Row >= 3 =>
              out = SumOver(mat.T, 0..(mat.Col - 1),
                            [j \in 0..(mat.Col - 1) |->
                                Mul(mat.T, MatGet(mat, 0, j),
                                    CofactorBySpec(mat, 0, j))])
        /\ IsIdentity(mat) => out = Cast(mat.T, 1)
        /\ (mat.Row = 2 /\ mat.data = [k \in 0..3 |-> Cast(mat.T, k + 1)])
              => out = Cast(mat.T, -2)

\* Det has returned -2 for a 3x3 matrix
C11_Witness ==
    /\ op = "Det" /\ mat.Row = 3 /\ mat.T = "int" /\ out = -2

\* C12: Rank of a Rows x Cols matrix of any numeric element type, integer
\* types included, is its number of linearly independent rows (columns).
C12_RankIsTrueRank ==
    op = "Rank" => out = TrueRank(mat)

\* C13: Rank(Identity(N)) = N for every N >= 1.
C13_RankOfIdentity ==
    (op = "Rank" /\ IsIdentity(mat)) => out = mat.Row

\* Rank has run on the 3x3 identity of a floating type
C13_Witness ==
    /\ op = "Rank" /\ IsIdentity(mat) /\ mat.Row = 3 /\ mat.T = "double"
    /\ out = 3

\* C14: Trace of a square matrix of any numeric element type is the sum of
\* its diagonal elements, nothing being lost to a narrower accumulator.
C14_TraceIsDiagSum ==
    op = "Trace" => Cast(mat.T, out) = DiagSum(mat)

\* C15: Adjoint of a square matrix of size N >= 1 is the transposed matrix of
\* cofactors, adj[c, r] = Cofactor(mat, r, c); for N = 1 it is defined and
\* equals the 1x1 matrix [1].
C15_AdjointIsCofactorTranspose ==
    op = "Adjoint" =>
        /\ status = "ok"
        /\ out.Row = mat.Row /\ out.Col = mat.Col
        /\ mat.Row = 1 => out.data[0] = Cast(mat.T, 1)
        /\ mat.Row >= 2 =>
              \A r \in 0..(mat.Row - 1), c \in 0..(mat.Col - 1) :
                  out.data[c * mat.Col + r] = CofactorBySpec(mat, r, c)

----------------------------------------------------------------------------
\* entry (r, c) of the matrix product of A and B: the sum over k of
\* A[r, k] * B[k, c]
ProductEntry(A, B, r, c) ==
    SumOver(A.T, 0..(A.Col - 1),
            [k \in 0..(A.Col - 1) |->
                Mul(A.T, MatGet(A, r, k), MatGet(B, k, c))])

\* P is the matrix product of A and B
IsProduct(P, A, B) ==
    /\ P.Row = A.Row /\ P.Col = B.Col
    /\ DOMAIN P.data = 0..(A.Row * B.Col - 1)
    /\ \A r \in 0..(A.Row - 1), c \in 0..(B.Col - 1) :
          P.data[r * B.Col + c] = ProductEntry(A, B, r, c)

\* C16: for an R x C matrix A and a C x K matrix B, A * B is the R x K matrix
\* with entry (r, c) the sum over k of A[r,k] * B[k,c] (the matrix product,
\* not the elementwise one, also for equal square shapes); A and B are
\* unchanged.
C16_MatMulIsProduct ==
    [][ (op = "none" /\ op' = "MatMul") =>
          /\ IsProduct(out', mat, arg'.rhs)
          /\ mat' = mat
          /\ arg'.rhsAfter = arg'.rhs ]_vars

\* the product of two 2x2 matrices that differs from their elementwise
\* product
C16_Witness ==
    /\ op = "MatMul" /\ mat.Row = 2 /\ mat.Col = 2 /\ arg.rhs.Col = 2
    /\ ~arg.alias
    /\ \E p \in 0..3 : out.data[p] # Mul(mat.T, mat.data[p], arg.rhs.data[p])

\* C17: for square matrices A and B, after A *= B the receiver holds the
\* matrix product (old A) x B with its shape kept and B is unchanged; when B
\* is A itself the receiver holds (old A) x (old A).
C17_MulAssignIsProduct ==
    [][ (op = "none" /\ op' = "MulAssign") =>
          /\ IsProduct(mat', mat, arg'.rhs)
          /\ mat'.Row = mat.Row /\ mat'.Col = mat.Col
          /\ arg'.alias => (arg'.rhs = mat /\ arg'.rhsAfter = mat')
          /\ ~arg'.alias => arg'.rhsAfter = arg'.rhs ]_vars

\* the 3x3 matrix 1..9 multiplied by itself in place: entry (0,0) is
\* 1*1 + 2*4 + 3*7
C17_Witness ==
    /\ op = "MulAssign" /\ arg.alias /\ mat.T = "int"
    /\ arg.rhs = IotaMat("int", 3, 3)
    /\ mat.data[0] = 30 /\ mat.data[8] = 150

\* C18: KroneckerProduct(A, B) of a Row1 x Col1 and a Row2 x Col2 matrix has
\* shape (Row1*Row2) x (Col1*Col2), entry (i*Row2 + k, j*Col2 + l) being
\* A[i,j] * B[k,l]; every entry of the result is written exactly once.
C18_KroneckerEntries ==
    op = "Kronecker" =>
        LET B == arg.rhs IN
        /\ out.Row = mat.Row * B.Row /\ out.Col = mat.Col * B.Col
        /\ DOMAIN out.data = 0..(mat.Row * B.Row * mat.Col * B.Col - 1)
        /\ \A i \in 0..(mat.Row - 1), j \in 0..(mat.Col - 1),
              k \in 0..(B.Row - 1), l \in 0..(B.Col - 1) :
              out.data[(i * B.Row + k) * out.Col + (j * B.Col + l)] =
                 Mul(mat.T, MatGet(mat, i, j), MatGet(B, k, l))
        /\ \A p \in DOMAIN out.data : arg.writes[p] = 1

\* a 2x3 matrix times a 2x3 block: the last entry of the 4x9 result is
\* A[1,2] * B[1,2]
C18_Witness ==
    /\ op = "Kronecker" /\ mat.T = "int"
    /\ mat.Row = 2 /\ mat.Col = 3 /\ arg.rhs.Row = 2 /\ arg.rhs.Col = 3
    /\ mat.data[5] = 1 /\ mat.data[0] = 0
    /\ out.data[35] = 6 /\ out.data[0] = 0

----------------------------------------------------------------------------
\* the product of element i of every vector of vs
ProductAt(vs, i) ==
    LET P[k \in 0..Len(vs)] ==
            IF k = 0 THEN Cast(vs[1].T, 1)
            ELSE Mul(vs[1].T, P[k - 1], vs[k].data[i])
    IN  P[Len(vs)]

\* the sequence in reverse order
Reverse(sq) == [k \in 1..Len(sq) |-> sq[Len(sq) + 1 - k]]

\* C19: Dot of two or more vectors of dimension N is the sum over i of the
\* product of their i-th elements; so Dot(a, b) = Dot(b, a), and
\* Dot((1,2,3), (4,5,6)) = 32.
C19_DotIsSumOfProducts ==
    op = "Dot" =>
        /\ out = SumOver(vec.T, 0..(vec.N - 1),
                         [i \in 0..(vec.N - 1) |-> ProductAt(arg.vecs, i)])
        /\ Dot(Reverse(arg.vecs)) = out
        /\ arg.vecs = <<MakeVec(vec.T, <<1, 2, 3>>), MakeVec(vec.T, <<4, 5, 6>>)>>
              => out = Cast(vec.T, 32)

\* Dot of three vectors of dimension 3, with a result that is not zero
C19_Witness ==
    /\ op = "Dot" /\ Len(arg.vecs) = 3 /\ vec.N = 3
    /\ vec = MakeVec(vec.T, <<1, 2, 3>>)
    /\ arg.vecs[2] = MakeVec(vec.T, <<4, 5, 6>>)
    /\ out = Cast(vec.T, 78)

\* C20: Normalize of a vector whose Length is zero returns the zero vector
\* and divides by nothing; for every other vector it returns the vector
\* divided elementwise by its Length (the quotient taken in the element
\* type), never dividing by zero.
C20_NormalizeGuardsZero ==
    op = "Normalize" =>
        LET len == Length(vec) IN
        /\ Cast(vec.T, 0) \notin arg.divisors
        /\ len = Cast(vec.T, 0) =>
              (out = ZeroVec(vec.T, vec.N) /\ arg.divisors = {})
        /\ len # Cast(vec.T, 0) =>
              /\ out.N = vec.N /\ DOMAIN out.data = 0..(vec.N - 1)
              /\ \A i \in 0..(vec.N - 1) :
                    out.data[i] = Div(vec.T, vec.data[i], len)

\* Normalize has returned the zero vector for a zero vector of three elements
C20_Witness ==
    /\ op = "Normalize" /\ vec.N = 3 /\ vec.T = "double"
    /\ vec = ZeroVec("double", 3)
    /\ out = ZeroVec("double", 3) /\ arg.divisors = {}

----------------------------------------------------------------------------
\* C21: for every nonzero vector v of any numeric element type,
\* Length(Normalize(v)) is within epsilon of 1.
C21_NormalizedLengthIsOne ==
    (op = "NormalizeLength" /\ vec # ZeroVec(vec.T, vec.N)) =>
        AbsLtEps(vec.T, Sub(vec.T, out, Cast(vec.T, 1)))

\* C22: for all vectors a and b of the same dimension, integer element types
\* included, Distance(a, b) equals Length(a - b).
C22_DistanceIsLengthOfDifference ==
    op = "Distance" =>
        out.distance.sq =
            Mul("double", ToRat(vec.T, out.length), ToRat(vec.T, out.length))

----------------------------------------------------------------------------
\* C23: Transpose(A) of a Rows x Cols matrix has shape Cols x Rows with
\* Transpose(A)[c, r] = A[r, c], and Transpose(Transpose(A)) = A.
C23_TransposeSwaps ==
    /\ op = "Transpose" =>
          /\ out.Row = mat.Col /\ out.Col = mat.Row
          /\ DOMAIN out.data = 0..(mat.Row * mat.Col - 1)
          /\ \A r \in 0..(mat.Row - 1), c \in 0..(mat.Col - 1) :
                out.data[c * mat.Row + r] = mat.data[r * mat.Col + c]
    /\ op = "TransposeTwice" => out = mat

\* the transpose of a 2x3 matrix that is not constant
C23_Witness ==
    /\ op = "Transpose" /\ mat.T = "int" /\ mat.Row = 2 /\ mat.Col = 3
    /\ mat.data[1] = 1 /\ mat.data[3] = 0
    /\ out.Row = 3 /\ out.data[2] = 1 /\ out.data[1] = 0

\* C25: for Rows > 1, Cols > 1, r < Rows and c < Cols, MinorMatrix(mat, r, c)
\* is the (Rows-1) x (Cols-1) matrix with result[i, j] =
\* mat[i + (i >= r ? 1 : 0), j + (j >= c ? 1 : 0)]; every result cell is
\* written exactly once and no write falls outside the result.
C25_MinorMatrixCells ==
    (op = "MinorMatrix" /\ arg.omitRow < mat.Row /\ arg.omitCol < mat.Col) =>
        /\ status = "ok" /\ arg.outside = 0
        /\ out = MinorMatrix(mat, arg.omitRow, arg.omitCol)
        /\ out.Row = mat.Row - 1 /\ out.Col = mat.Col - 1
        /\ DOMAIN out.data = 0..((mat.Row - 1) * (mat.Col - 1) - 1)
        /\ \A i \in 0..(mat.Row - 2), j \in 0..(mat.Col - 2) :
              /\ out.data[i * (mat.Col - 1) + j] =
                    mat.data[(i + (IF i >= arg.omitRow THEN 1 ELSE 0)) * mat.Col
                             + j + (IF j >= arg.omitCol THEN 1 ELSE 0)]
              /\ arg.writes[i * (mat.Col - 1) + j] = 1

\* the minor of the 3x3 matrix 1..9 at the middle row and column
C25_Witness ==
    /\ op = "MinorMatrix" /\ mat.T = "int" /\ mat = IotaMat("int", 3, 3)
    /\ arg.omitRow = 1 /\ arg.omitCol = 1
    /\ out.data = (0 :> 1 @@ 1 :> 3 @@ 2 :> 7 @@ 3 :> 9)

\* the matrix with x on the diagonal and zero elsewhere
IsScalarMatrix(m, Size, x) ==
    /\ m.Row = Size /\ m.Col = Size
    /\ \A r \in 0..(Size - 1), c \in 0..(Size - 1) :
          m.data[r * Size + c] = IF r = c THEN x ELSE Cast(m.T, 0)

\* C26: for every square integer matrix A of size N >= 2, A * Adjoint(A) and
\* Adjoint(A) * A both equal Det(A) * Identity(N).
C26_AdjointProductIsDetIdentity ==
    (op = "AdjointProduct" /\ mat.T = "int") =>
        /\ IsScalarMatrix(out.left, mat.Row, out.det)
        /\ IsScalarMatrix(out.right, mat.Row, out.det)
        /\ out.det = LeibnizDet(mat)

\* a 3x3 integer matrix with determinant 2 and its products with the adjoint
C26_Witness ==
    /\ op = "AdjointProduct" /\ mat.T = "int" /\ mat.Row = 3
    /\ out.det = 2 /\ out.left.data[4] = 2 /\ out.right.data[8] = 2

\* C27: Rank terminates, returns a value in 0..min(Rows, Cols), uses every
\* row as a pivot at most once and takes at most one pivot per column, and
\* leaves its argument unchanged (it works on a private copy).
C27_RankPivotsOnce ==
    [][op' = "Rank" =>
        /\ mat' = mat
        /\ out' \in 0..(IF mat.Row < mat.Col THEN mat.Row ELSE mat.Col)
        /\ arg'.passes <= mat.Col
        /\ Len(arg'.pivots) = out'
        /\ \A a, b \in 1..Len(arg'.pivots) :
              a # b => /\ arg'.pivots[a][1] # arg'.pivots[b][1]
                       /\ arg'.pivots[a][2] # arg'.pivots[b][2]
        /\ \A a \in 1..Len(arg'.pivots) :
              /\ arg'.pivots[a][1] \in 0..(mat.Row - 1)
              /\ arg'.pivots[a][2] \in 0..(mat.Col - 1)]_vars

\* a call that took two pivots and changed its copy, not the argument
C27_Witness ==
    /\ op = "Rank" /\ out = 2 /\ Len(arg.pivots) = 2
    /\ arg.temp # mat /\ arg.pivots[1][1] # 0

\* C28: IsFullRank(A) is true exactly when Det(A) != 0; Rank(A) == Size and
\* Det(A) != 0 never disagree.
C28_FullRankIffDetNonzero ==
    op = "IsFullRank" =>
        /\ out = (Det(mat) # Cast(mat.T, 0))
        /\ (Rank(mat) = mat.Row) = (Det(mat) # Cast(mat.T, 0))

\* the value the statements `self ops[1] operand; self ops[2] third; ...`
\* leave in the receiver, every statement naming the receiver
RECURSIVE OnReceiver(_, _, _, _, _)
OnReceiver(store, ops, operands, ub, k) ==
    IF k > Len(ops) THEN store["self"]
    ELSE OnReceiver(Compound(store, ops[k], "self", operands[k], ub).store,
                    ops, operands, ub, k + 1)

\* C24: every in-place compound operator of Vec and Mat (+=, -=, *=, /=, ^=
\* with a vector, a matrix or a scalar as right operand) changes the
\* receiver's buffer only: a distinct right operand and every other value
\* are unchanged after the call, and the value returned is the receiver
\* itself, so that chained in-place operations act on the same object.
C24_CompoundChangesReceiverOnly ==
    (op \in {"Compound", "Chain"} /\ status = "ok") =>
        /\ out = "self"
        /\ arg.after["third"] = arg.before["third"]
        /\ Distinct(arg.operand) => arg.after["rhs"] = arg.before["rhs"]
        /\ Receiver = arg.after["self"]
        /\ op = "Chain" =>
              Receiver = OnReceiver(arg.before, arg.ops,
                                    <<arg.operand,
                                      [kind |-> "object", name |-> "third"]>>,
                                    arg.ub, 1)

\* (v += rhs) *= third on the integer vector (1, 2, 3): both act on v
C24_Witness ==
    /\ op = "Chain" /\ status = "ok" /\ arg.ops = <<"+=", "*=">>
    /\ vec # NoVec /\ vec.T = "int"
    /\ arg.operand = [kind |-> "object", name |-> "rhs"]
    /\ arg.before["self"].data = (0 :> 1 @@ 1 :> 2 @@ 2 :> 3)
    /\ arg.before["rhs"].data = (0 :> 1 @@ 1 :> 1 @@ 2 :> 1)
    /\ vec.data = (0 :> 2 @@ 1 :> 6 @@ 2 :> 12)
    /\ arg.after["rhs"] = arg.before["rhs"]

\* the cross product (a1*b2 - a2*b1, a2*b0 - a0*b2, a0*b1 - a1*b0)
CrossBySpec(a, b) ==
    [a EXCEPT !.data =
        (0 :> Sub(a.T, Mul(a.T, a.data[1], b.data[2]), Mul(a.T, a.data[2], b.data[1]))
         @@ 1 :> Sub(a.T, Mul(a.T, a.data[2], b.data[0]), Mul(a.T, a.data[0], b.data[2]))
         @@ 2 :> Sub(a.T, Mul(a.T, a.data[0], b.data[1]), Mul(a.T, a.data[1], b.data[0])))]

\* C29: for 3-element vectors a and b, after a ^= b the receiver equals the
\* cross product (a1*b2 - a2*b1, a2*b0 - a0*b2, a0*b1 - a1*b0) of the old a
\* and b, every component computed from the old value of a; also when b is
\* the same object as a, where a ^= a yields the zero vector; and
\* (1,0,0) ^ (0,1,0) = (0,0,1).
C29_CrossAssignIsCrossProduct ==
    (op = "Compound" /\ arg.ops = <<"^=">> /\ status = "ok"
        /\ arg.operand.kind = "object") =>
        /\ vec = CrossBySpec(arg.before["self"],
                             arg.before[arg.operand.name])
        /\ arg.operand.name = "self" => vec = ZeroVec(vec.T, 3)
        /\ (/\ arg.before["self"] = MakeVec(vec.T, <<1, 0, 0>>)
            /\ arg.operand.name = "rhs"
            /\ arg.before["rhs"] = MakeVec(vec.T, <<0, 1, 0>>)) =>
              vec = MakeVec(vec.T, <<0, 0, 1>>)

\* (1, 0, 0) ^= (0, 1, 0) has run
C29_Witness ==
    /\ op = "Compound" /\ arg.ops = <<"^=">> /\ status = "ok"
    /\ arg.operand = [kind |-> "object", name |-> "rhs"]
    /\ arg.before["self"] = MakeVec("int", <<1, 0, 0>>)
    /\ arg.before["rhs"] = MakeVec("int", <<0, 1, 0>>)
    /\ vec = MakeVec("int", <<0, 0, 1>>)

\* C30: for all vectors v and w of the same type, v += w; v -= w leaves v
\* equal to its original value and w unchanged, and for every scalar s # 0,
\* v *= s; v /= s leaves v equal to its original value (integer element
\* types).
C30_SequencesRestore ==
    (op = "Sequence" /\ vec # NoVec /\ vec.T = "int") =>
        /\ (arg.ops = <<"+=", "-=">> /\ arg.operand = [kind |-> "object", name |-> "rhs"]) =>
              /\ status = "ok"
              /\ vec = arg.before["self"]
              /\ arg.after["rhs"] = arg.before["rhs"]
        /\ (arg.ops = <<"*=", "/=">> /\ arg.operand.kind = "value"
               /\ arg.operand.value # 0) =>
              /\ status = "ok"
              /\ vec = arg.before["self"]

\* (1, 2, 3) *= -2; /= -2 has run
C30_Witness ==
    /\ op = "Sequence" /\ status = "ok" /\ vec # NoVec /\ vec.T = "int"
    /\ arg.ops = <<"*=", "/=">>
    /\ arg.operand = [kind |-> "value", value |-> -2]
    /\ vec.data = (0 :> 1 @@ 1 :> 2 @@ 2 :> 3)
    /\ arg.before["self"] = vec

====
